---- MODULE Spec2Model ----
(***************************************************************************)
(* hum2song: the in-memory Job Store (core/task_manager.py), its contract  *)
(* models (core/models.py) and the pipeline orchestrator                   *)
(* (core/generation_service.py), as a state machine.                       *)
(*                                                                         *)
(* Conventions of the encoding                                             *)
(*   - progress is counted in tenths: 0.1 is 1, 1.0 is ProgressOne;        *)
(*   - a pathlib.Path is a record [parent, stem, suffix]; str(path) is the *)
(*     string parent/stem+suffix; the disk is the set fs of the strings of *)
(*     the files that exist;                                               *)
(*   - Python's None is None for an optional object and NoneStr for an     *)
(*     optional string or enum;                                            *)
(*   - a store method is an operator from the store (and its arguments) to *)
(*     [tasks |-> the store after the call, err |-> "ok" or the error      *)
(*     raised]; the action of the same name in CamelCase applies it.       *)
(***************************************************************************)
EXTENDS Integers, Sequences, FiniteSets, TLC

VARIABLES
    tasks,      \* TaskManager._tasks: UUID -> _TaskRecord
    issued,     \* how many uuid4() values create_task has drawn so far
    fs,         \* the files that exist on disk (strings of absolute paths)
    now,        \* the clock read by _utcnow()
    deleted,    \* how many files something other than the program has removed
    runs,       \* UUID -> the frame of the process_task call for that job
    calls,      \* UUID -> the Job Store calls that process_task has made
    doc,        \* the ScoreDoc in the score editor's hands
    midi,       \* the MIDI file the score is read from and written to
    lock,       \* TaskManager._lock: the thread that holds it, or NoneStr
    threads,    \* thread -> the frame of the store method it is executing
    committed,  \* the store as it was when the lock was last free
    cli         \* the frame of the cmd_generate call of the command-line client

scoreVars == <<doc, midi>>
lockVars == <<lock, threads, committed>>
vars == <<tasks, issued, fs, now, deleted, runs, calls, scoreVars, lockVars, cli>>

----------------------------------------------------------------------------
(* Bounds of the model *)

MaxTime == 1
MaxDeleted == 1

(* 1.0 on the scale of tenths *)
ProgressOne == 10

----------------------------------------------------------------------------
(* Values *)

None == [none |-> TRUE]
NoneStr == "None"

TaskStatus == {"queued", "running", "completed", "failed"}
Stage == {"preprocessing", "converting", "synthesizing", "finalizing"}
FileType == {"audio", "midi"}
OutputFormat == {"mp3", "wav", "mid"}

(* the values uuid4() returns, in the order it returns them *)
Uuid4Seq == <<"uuid-1", "uuid-2">>
UUIDs == {Uuid4Seq[n] : n \in DOMAIN Uuid4Seq}
uuid4(n) == Uuid4Seq[n + 1]
Malformed == "not-a-uuid"

(* uuid.UUID(str(task_id)) succeeds exactly on well-formed ids *)
ensure_uuid(task_id) == task_id \in UUIDs

utcnow == now

----------------------------------------------------------------------------
(* Paths and the disk *)

Cwd == "/srv"

MkPath(parent, stem, suffix) == [parent |-> parent, stem |-> stem, suffix |-> suffix]

(* Path.expanduser().resolve(): a relative path is anchored at the working directory *)
Resolve(p) == IF p.parent = "." THEN [p EXCEPT !.parent = Cwd] ELSE p

(* Path.name *)
Name(p) == p.stem \o p.suffix

(* str(path) *)
Str(p) == p.parent \o "/" \o Name(p)

(* Path.exists() *)
Exists(p) == Str(Resolve(p)) \in fs

(* str.lower() on the suffixes in use *)
Lower(s) ==
    CASE s = ".WAV" -> ".wav"
      [] s = ".MP3" -> ".mp3"
      [] s = ".MID" -> ".mid"
      [] OTHER -> s

infer_output_format_from_path(p) ==
    LET suf == Lower(p.suffix) IN
    IF suf = ".mp3" THEN "mp3"
    ELSE IF suf = ".wav" THEN "wav"
    ELSE IF suf \in {".mid", ".midi"} THEN "mid"
    ELSE "mp3"

----------------------------------------------------------------------------
(* core/models.py *)

(* mutant: only the midi rule is enforced *)
validate_result_consistency_midi_only(r) ==
    ~(r.file_type = "midi" /\ r.output_format # "mid")

validate_result_consistency(r) ==
    /\ ~(r.file_type = "midi" /\ r.output_format # "mid")
    /\ ~(r.file_type = "audio" /\ r.output_format = "mid")

(* TaskResult(...): the field constraints, then the model validator *)
TaskResultValid(r) ==
    /\ r.file_type \in FileType
    /\ r.output_format \in OutputFormat
    /\ r.filename # ""
    /\ r.download_url # ""
    /\ validate_result_consistency(r)

(* TaskError(...): message has min_length 1 *)
TaskErrorValid(e) == e.message # ""

validate_invariants(info) ==
    IF info.status = "completed"
    THEN /\ info.result # None
         /\ info.error = None
         /\ info.progress = ProgressOne
    ELSE IF info.status = "failed"
    THEN /\ info.error # None
         /\ info.result = None
    ELSE /\ info.result = None
         /\ info.error = None

(* TaskInfoResponse(...): the field constraints, then the model validator *)
TaskInfoResponseValid(info) ==
    /\ info.status \in TaskStatus
    /\ info.stage \in Stage
    /\ 0 <= info.progress /\ info.progress <= ProgressOne
    /\ validate_invariants(info)

----------------------------------------------------------------------------
(* core/task_manager.py *)

Resp(t, e) == [tasks |-> t, err |-> e]

(* mutant: a failed job is not taken as final *)
is_finalized_completed_only(status) == status = "completed"

is_finalized(status) == status \in {"completed", "failed"}

(* _TaskRecord as create_task builds it; created_at, which is written here and
   only echoed afterwards, is left out *)
TaskRecord(tid, stage, at) ==
    [task_id |-> tid,
     status |-> "queued",
     progress |-> 0,
     stage |-> stage,
     updated_at |-> at,
     result |-> None,
     error |-> None,
     artifact_paths |-> << >>]

(* dict[key] = value *)
Put(d, k, v) == [x \in (DOMAIN d) \cup {k} |-> IF x = k THEN v ELSE d[x]]

exists(t, task_id) == ensure_uuid(task_id) /\ task_id \in DOMAIN t

get_task_info(t, task_id) ==
    IF ~ensure_uuid(task_id) THEN [err |-> "NotFound", value |-> None]
    ELSE IF task_id \notin DOMAIN t THEN [err |-> "NotFound", value |-> None]
    ELSE LET rec == t[task_id]
             info == [task_id |-> rec.task_id,
                      status |-> rec.status,
                      progress |-> rec.progress,
                      stage |-> rec.stage,
                      updated_at |-> rec.updated_at,
                      result |-> rec.result,
                      error |-> rec.error]
         IN IF TaskInfoResponseValid(info)
            THEN [err |-> "ok", value |-> info]
            ELSE [err |-> "ValidationError", value |-> None]

(* mutant: the bound file is not looked for on disk *)
get_artifact_path_unchecked(t, disk, task_id, file_type) ==
    IF ~ensure_uuid(task_id) THEN [err |-> "NotFound", value |-> NoneStr]
    ELSE IF task_id \notin DOMAIN t THEN [err |-> "NotFound", value |-> NoneStr]
    ELSE LET rec == t[task_id] IN
         IF rec.status # "completed" THEN [err |-> "NotCompleted", value |-> NoneStr]
         ELSE IF file_type \notin DOMAIN rec.artifact_paths
         THEN [err |-> "ArtifactUnavailable", value |-> NoneStr]
         ELSE [err |-> "ok", value |-> rec.artifact_paths[file_type]]

get_artifact_path(t, disk, task_id, file_type) ==
    IF ~ensure_uuid(task_id) THEN [err |-> "NotFound", value |-> NoneStr]
    ELSE IF task_id \notin DOMAIN t THEN [err |-> "NotFound", value |-> NoneStr]
    ELSE LET rec == t[task_id] IN
         IF rec.status # "completed" THEN [err |-> "NotCompleted", value |-> NoneStr]
         ELSE IF file_type \notin DOMAIN rec.artifact_paths
                 \/ rec.artifact_paths[file_type] = ""
         THEN [err |-> "ArtifactUnavailable", value |-> NoneStr]
         ELSE IF rec.artifact_paths[file_type] \notin disk
         THEN [err |-> "FileMissing", value |-> NoneStr]
         ELSE [err |-> "ok", value |-> rec.artifact_paths[file_type]]

create_task(t, tid, stage, at) == Put(t, tid, TaskRecord(tid, stage, at))

(* mutant: a rejected call still stamps updated_at *)
mark_running_stamps_rejected(t, task_id, stage, at) ==
    IF ~ensure_uuid(task_id) THEN Resp(t, "NotFound")
    ELSE IF task_id \notin DOMAIN t THEN Resp(t, "NotFound")
    ELSE IF is_finalized(t[task_id].status)
    THEN Resp([t EXCEPT ![task_id].updated_at = at], "AlreadyFinal")
    ELSE Resp([t EXCEPT ![task_id] =
                  [@ EXCEPT !.status = "running",
                            !.stage = IF stage # NoneStr THEN stage ELSE @,
                            !.updated_at = at]],
              "ok")

mark_running(t, task_id, stage, at) ==
    IF ~ensure_uuid(task_id) THEN Resp(t, "NotFound")
    ELSE IF task_id \notin DOMAIN t THEN Resp(t, "NotFound")
    ELSE IF is_finalized(t[task_id].status) THEN Resp(t, "AlreadyFinal")
    ELSE Resp([t EXCEPT ![task_id] =
                  [@ EXCEPT !.status = "running",
                            !.stage = IF stage # NoneStr THEN stage ELSE @,
                            !.updated_at = at]],
              "ok")

(* mutant: reaching 1.0 completes the job *)
update_progress_completes_at_one(t, task_id, progress, stage, at) ==
    IF ~(0 <= progress /\ progress <= ProgressOne) THEN Resp(t, "OutOfRange")
    ELSE IF ~ensure_uuid(task_id) THEN Resp(t, "NotFound")
    ELSE IF task_id \notin DOMAIN t THEN Resp(t, "NotFound")
    ELSE IF is_finalized(t[task_id].status) THEN Resp(t, "AlreadyFinal")
    ELSE Resp([t EXCEPT ![task_id] =
                  [@ EXCEPT !.status = IF progress = ProgressOne THEN "completed" ELSE "running",
                            !.progress = progress,
                            !.stage = IF stage # NoneStr THEN stage ELSE @,
                            !.updated_at = at]],
              "ok")

update_progress(t, task_id, progress, stage, at) ==
    IF ~(0 <= progress /\ progress <= ProgressOne) THEN Resp(t, "OutOfRange")
    ELSE IF ~ensure_uuid(task_id) THEN Resp(t, "NotFound")
    ELSE IF task_id \notin DOMAIN t THEN Resp(t, "NotFound")
    ELSE IF is_finalized(t[task_id].status) THEN Resp(t, "AlreadyFinal")
    ELSE Resp([t EXCEPT ![task_id] =
                  [@ EXCEPT !.status = IF @ = "queued" THEN "running" ELSE @,
                            !.progress = progress,
                            !.stage = IF stage # NoneStr THEN stage ELSE @,
                            !.updated_at = at]],
              "ok")

(* mutant: the query key of the legacy download route *)
DownloadUrl_kind(tid, file_type) == "/tasks/" \o tid \o "/download?kind=" \o file_type

DownloadUrl(tid, file_type) == "/tasks/" \o tid \o "/download?file_type=" \o file_type

(* mutant: progress is left where it was *)
mark_completed_keeps_progress(t, disk, task_id, artifact_path, file_type, output_format, filename, at) ==
    IF ~ensure_uuid(task_id) THEN Resp(t, "NotFound")
    ELSE LET p == Resolve(artifact_path)
             fmt == IF output_format # NoneStr THEN output_format
                    ELSE infer_output_format_from_path(p)
             name == IF filename # NoneStr /\ filename # "" THEN filename ELSE Name(p)
             result == [file_type |-> file_type,
                        output_format |-> fmt,
                        filename |-> name,
                        download_url |-> DownloadUrl(task_id, file_type)]
         IN IF Str(p) \notin disk THEN Resp(t, "FileMissing")
            ELSE IF ~TaskResultValid(result) THEN Resp(t, "ValidationError")
            ELSE IF task_id \notin DOMAIN t THEN Resp(t, "NotFound")
            ELSE IF is_finalized(t[task_id].status) THEN Resp(t, "AlreadyFinal")
            ELSE Resp([t EXCEPT ![task_id] =
                          [@ EXCEPT !.status = "completed",
                                    !.stage = "finalizing",
                                    !.result = result,
                                    !.error = None,
                                    !.artifact_paths = Put(@, file_type, Str(p)),
                                    !.updated_at = at]],
                      "ok")

(* mutant: the artifact is not bound *)
mark_completed_binds_nothing(t, disk, task_id, artifact_path, file_type, output_format, filename, at) ==
    IF ~ensure_uuid(task_id) THEN Resp(t, "NotFound")
    ELSE LET p == Resolve(artifact_path)
             fmt == IF output_format # NoneStr THEN output_format
                    ELSE infer_output_format_from_path(p)
             name == IF filename # NoneStr /\ filename # "" THEN filename ELSE Name(p)
             result == [file_type |-> file_type,
                        output_format |-> fmt,
                        filename |-> name,
                        download_url |-> DownloadUrl(task_id, file_type)]
         IN IF Str(p) \notin disk THEN Resp(t, "FileMissing")
            ELSE IF ~TaskResultValid(result) THEN Resp(t, "ValidationError")
            ELSE IF task_id \notin DOMAIN t THEN Resp(t, "NotFound")
            ELSE IF is_finalized(t[task_id].status) THEN Resp(t, "AlreadyFinal")
            ELSE Resp([t EXCEPT ![task_id] =
                          [@ EXCEPT !.status = "completed",
                                    !.progress = ProgressOne,
                                    !.stage = "finalizing",
                                    !.result = result,
                                    !.error = None,
                                    !.updated_at = at]],
                      "ok")

mark_completed(t, disk, task_id, artifact_path, file_type, output_format, filename, at) ==
    IF ~ensure_uuid(task_id) THEN Resp(t, "NotFound")
    ELSE LET p == Resolve(artifact_path)
             fmt == IF output_format # NoneStr THEN output_format
                    ELSE infer_output_format_from_path(p)
             name == IF filename # NoneStr /\ filename # "" THEN filename ELSE Name(p)
             result == [file_type |-> file_type,
                        output_format |-> fmt,
                        filename |-> name,
                        download_url |-> DownloadUrl(task_id, file_type)]
         IN IF Str(p) \notin disk THEN Resp(t, "FileMissing")
            ELSE IF ~TaskResultValid(result) THEN Resp(t, "ValidationError")
            ELSE IF task_id \notin DOMAIN t THEN Resp(t, "NotFound")
            ELSE IF is_finalized(t[task_id].status) THEN Resp(t, "AlreadyFinal")
            ELSE Resp([t EXCEPT ![task_id] =
                          [@ EXCEPT !.status = "completed",
                                    !.progress = ProgressOne,
                                    !.stage = "finalizing",
                                    !.result = result,
                                    !.error = None,
                                    !.artifact_paths = Put(@, file_type, Str(p)),
                                    !.updated_at = at]],
                      "ok")

mark_failed(t, task_id, message, trace_id, stage, at) ==
    IF ~ensure_uuid(task_id) THEN Resp(t, "NotFound")
    ELSE LET err == [message |-> message, trace_id |-> trace_id] IN
         IF ~TaskErrorValid(err) THEN Resp(t, "ValidationError")
         ELSE IF task_id \notin DOMAIN t THEN Resp(t, "NotFound")
         ELSE IF is_finalized(t[task_id].status) THEN Resp(t, "AlreadyFinal")
         ELSE Resp([t EXCEPT ![task_id] =
                       [@ EXCEPT !.status = "failed",
                                 !.stage = IF stage # NoneStr THEN stage ELSE @,
                                 !.result = None,
                                 !.error = err,
                                 !.updated_at = at]],
                   "ok")

(* mutant: a job exactly max_age_seconds old is deleted too *)
to_del_inclusive(t, max_age_seconds, at) ==
    {tid \in DOMAIN t : at - t[tid].updated_at >= max_age_seconds}

(* the ids prune deletes *)
to_del(t, max_age_seconds, at) ==
    {tid \in DOMAIN t : at - t[tid].updated_at > max_age_seconds}

prune(t, max_age_seconds, at) ==
    [tasks |-> [tid \in (DOMAIN t) \ to_del(t, max_age_seconds, at) |-> t[tid]],
     removed |-> Cardinality(to_del(t, max_age_seconds, at))]

(* mutant: the job's status is not looked at *)
attach_artifact_any_status(t, disk, task_id, artifact_path, file_type, at) ==
    IF ~ensure_uuid(task_id) THEN Resp(t, "NotFound")
    ELSE LET p == Resolve(artifact_path) IN
         IF Str(p) \notin disk THEN Resp(t, "FileMissing")
         ELSE IF task_id \notin DOMAIN t THEN Resp(t, "NotFound")
         ELSE Resp([t EXCEPT ![task_id] =
                       [@ EXCEPT !.artifact_paths = Put(@, file_type, Str(p)),
                                 !.updated_at = at]],
                   "ok")

attach_artifact(t, disk, task_id, artifact_path, file_type, at) ==
    IF ~ensure_uuid(task_id) THEN Resp(t, "NotFound")
    ELSE LET p == Resolve(artifact_path) IN
         IF Str(p) \notin disk THEN Resp(t, "FileMissing")
         ELSE IF task_id \notin DOMAIN t THEN Resp(t, "NotFound")
         ELSE IF t[task_id].status # "completed" THEN Resp(t, "NotCompleted")
         ELSE Resp([t EXCEPT ![task_id] =
                       [@ EXCEPT !.artifact_paths = Put(@, file_type, Str(p)),
                                 !.updated_at = at]],
                   "ok")

----------------------------------------------------------------------------
(* The arguments the callers draw from *)

IdArgs == UUIDs \cup {Malformed}
CreateStageArgs == {"preprocessing"}
StageArgs == {NoneStr, "converting"}
ProgressArgs == {-1, 0, ProgressOne, 11}
FormatArgs == {NoneStr, "mid"}
FilenameArgs == {NoneStr, "renamed.bin"}
MessageArgs == {"", "boom"}
TraceArgs == {NoneStr}
MaxAgeArgs == {0, 1}

TakeWav == MkPath(".", "take", ".WAV")
TuneMidi == MkPath("/out", "tune", ".midi")
BlobXyz == MkPath("/out", "blob", ".xyz")
GhostMp3 == MkPath("/out", "ghost", ".mp3")

ArtifactArgs == {TakeWav, TuneMidi, GhostMp3}
AttachArgs == {TakeWav, GhostMp3}

(* the files on disk when the store is constructed; GhostMp3 never exists *)
InitFiles == {Str(Resolve(p)) : p \in {TakeWav, TuneMidi, BlobXyz}}

----------------------------------------------------------------------------
(* The layout of the files on disk *)

BaseDir == "/srv/storage"
UploadDir == "/srv/storage/uploads"
ArtifactDir == "/srv/storage/artifacts"

(* mutant: the upload is stored under the name the client gave it *)
InputPath_client_name(tid) == MkPath(UploadDir, "hum", ".wav")

(* upload_dir / f"{task_id}{original_ext}" *)
InputPath(tid) == MkPath(UploadDir, tid, ".wav")

(* base_dir / f"temp_{input_path.stem}.{output_format}" *)
TempOut(tid, output_format) == MkPath(BaseDir, "temp_" \o tid, "." \o output_format)

(* artifact_dir / f"{task_id}.{output_format}" *)
FinalPath(tid, output_format) == MkPath(ArtifactDir, tid, "." \o output_format)

(* settings.output_dir, and the MIDI file audio_to_midi writes there *)
OutputDir == "/srv/outputs"
MidiOut(tid) == MkPath(OutputDir, tid, ".mid")

(* the output_format values the route's pattern lets through *)
RouteFormats == {"mp3", "wav"}

(* out_dir / f"{task_id}.score.json" *)
ScoreJson(tid) == MkPath(OutputDir, tid, ".score.json")

(* midi_to_audio: out_dir / f"{midi_path.stem}.{output_format}" *)
RenderOut(stem, output_format) == MkPath(OutputDir, stem, "." \o output_format)

(* build_paths: upload_dir / f"{job_id}_clean.wav", the preprocessed audio *)
CleanWav(tid) == MkPath(UploadDir, tid \o "_clean", ".wav")

(* every path the program handles, and Path(s) for the string s of one of them *)
KnownPaths ==
    {TakeWav, TuneMidi, BlobXyz, GhostMp3}
        \cup {Resolve(p) : p \in {TakeWav, TuneMidi, BlobXyz, GhostMp3}}
        \cup {InputPath(tid) : tid \in IdArgs}
        \cup {MidiOut(tid) : tid \in IdArgs}
        \cup {ScoreJson(tid) : tid \in IdArgs}
        \cup {TempOut(tid, fmt) : tid \in IdArgs, fmt \in RouteFormats}
        \cup {FinalPath(tid, fmt) : tid \in IdArgs, fmt \in RouteFormats}
        \cup {RenderOut(stem, fmt) : stem \in IdArgs \cup {"take", "tune", "blob", "ghost"},
                                     fmt \in RouteFormats}

PathOf(s) == CHOOSE p \in KnownPaths : Str(p) = s

----------------------------------------------------------------------------
(* routers/generation.py: the routes that read the Job Store *)

(* the class of the exception a rejected Job Store call raises *)
ExceptionClass(kind) ==
    CASE kind \in {"NotFound", "ArtifactUnavailable"} -> "KeyError"
      [] kind \in {"AlreadyFinal", "NotCompleted"} -> "RuntimeError"
      [] kind = "FileMissing" -> "FileNotFoundError"
      [] kind = "OutOfRange" -> "ValueError"
      [] OTHER -> "ValidationError"

guess_media_type(path) ==
    LET suf == Lower(path.suffix) IN
    IF suf = ".mp3" THEN "audio/mpeg"
    ELSE IF suf = ".wav" THEN "audio/wav"
    ELSE IF suf \in {".mid", ".midi"} THEN "audio/midi"
    ELSE "application/octet-stream"

(* GET /tasks/{task_id} *)
get_task_status(t, task_id) ==
    LET r == get_task_info(t, task_id) IN
    IF r.err = "ok" THEN [status |-> 200, body |-> r.value]
    ELSE IF ExceptionClass(r.err) = "KeyError" THEN [status |-> 404, body |-> None]
    ELSE [status |-> 500, body |-> None]

(* what download_artifact answers without a file *)
NoFile(status) == [status |-> status, path |-> NoneStr, media_type |-> NoneStr]

(* mutant: the file_type is looked at after the task *)
download_artifact_task_first(t, disk, task_id, file_type) ==
    IF file_type = NoneStr THEN NoFile(422)
    ELSE IF ~exists(t, task_id) THEN NoFile(404)
    ELSE IF file_type \notin FileType THEN NoFile(400)
    ELSE LET r == get_artifact_path(t, disk, task_id, file_type) IN
         IF r.err = "ok"
         THEN [status |-> 200, path |-> r.value,
               media_type |-> guess_media_type(PathOf(r.value))]
         ELSE IF ExceptionClass(r.err) = "RuntimeError" THEN NoFile(409)
         ELSE IF ExceptionClass(r.err) = "FileNotFoundError" THEN NoFile(404)
         ELSE NoFile(409)

(* GET /tasks/{task_id}/download?file_type=...; a request without file_type is
   answered 422 before the handler runs *)
download_artifact(t, disk, task_id, file_type) ==
    IF file_type = NoneStr THEN NoFile(422)
    ELSE IF file_type \notin FileType THEN NoFile(400)
    ELSE LET r == get_artifact_path(t, disk, task_id, file_type) IN
         IF r.err = "ok"
         THEN [status |-> 200, path |-> r.value,
               media_type |-> guess_media_type(PathOf(r.value))]
         ELSE IF ExceptionClass(r.err) = "RuntimeError" THEN NoFile(409)
         ELSE IF ExceptionClass(r.err) = "FileNotFoundError" THEN NoFile(404)
         ELSE IF ExceptionClass(r.err) = "KeyError"
         THEN IF r.err = "NotFound" THEN NoFile(404) ELSE NoFile(409)
         ELSE NoFile(500)

(* the file_type values a client sends: the two kinds, others, and none *)
FileTypeArgs == FileType \cup {"xxx", NoneStr}

----------------------------------------------------------------------------
----------------------------------------------------------------------------
(* core/score_models.py: the score document and normalize_score             *)
(*                                                                           *)
(* Conventions of the encoding                                              *)
(*   - a time in seconds is an integer number of nanoseconds;               *)
(*   - a string that is compared, ordered or hashed (an id, a track name)   *)
(*     is the sequence of its code points, "" being << >>; an id that is    *)
(*     None and an id that is "" are both NoId, the code treating the two   *)
(*     alike ("if not tr.id");                                              *)
(*   - a track name is [kind |-> "none"], [kind |-> "int", value |-> <<n>>] *)
(*     or [kind |-> "str", value |-> the string];                           *)
(*   - an optional integer that is None is NoneInt.                         *)

NoneInt == -1
NoId == << >>

(* nanoseconds in a microsecond: round(x, round_ndigits) with round_ndigits = 6 *)
Micro == 1000

(* round(x, 6) for an x that is not exactly halfway between two microseconds *)
Round6(ns) == ((ns + (Micro \div 2)) \div Micro) * Micro

NoName == [kind |-> "none"]
IntName(n) == [kind |-> "int", value |-> <<n>>]
StrName(s) == [kind |-> "str", value |-> s]

NoteEvent(id, pitch, start, duration, velocity) ==
    [id |-> id, pitch |-> pitch, start |-> start, duration |-> duration, velocity |-> velocity]

Track(id, name, program, channel, notes) ==
    [id |-> id, name |-> name, program |-> program, channel |-> channel, notes |-> notes]

ScoreDoc(tempo_bpm, tracks) ==
    [version |-> 1, tempo_bpm |-> tempo_bpm, time_signature |-> "4/4", tracks |-> tracks]

EmptyScore == ScoreDoc(120, << >>)

(* the Field constraints of NoteEvent, Track and ScoreDoc *)
NoteEventValid(ne) ==
    /\ ne.pitch \in 0..127
    /\ ne.start >= 0
    /\ ne.duration > 0
    /\ ne.velocity \in 1..127

TrackValid(tr) ==
    /\ tr.program = NoneInt \/ tr.program \in 0..127
    /\ tr.channel = NoneInt \/ tr.channel \in 0..15
    /\ \A i \in DOMAIN tr.notes : NoteEventValid(tr.notes[i])

ScoreDocValid(d) ==
    /\ d.tempo_bpm > 0
    /\ \A ti \in DOMAIN d.tracks : TrackValid(d.tracks[ti])

(* str(n) of a natural number: its decimal digits *)
RECURSIVE Digits(_)
Digits(n) == IF n < 10 THEN <<48 + n>> ELSE Digits(n \div 10) \o <<48 + (n % 10)>>

(* "None", "|", "Track", "t_", "n_" *)
NoneText == <<78, 111, 110, 101>>
Bar == <<124>>
TrackText == <<84, 114, 97, 99, 107>>
TrackIdPrefix == <<116, 95>>
NoteIdPrefix == <<110, 95>>

(* f"{x}" of an optional integer, and of a float (one text per value) *)
OptText(n) == IF n = NoneInt THEN NoneText ELSE Digits(n)
FloatText(ns) == Digits(ns)

(* hashlib.sha1(s).hexdigest()[:n]: a fixed scrambling of s that gives      *)
(* different digests to different strings; two strings with one truncated   *)
(* digest are not modelled                                                  *)
sha1_short(s, n) == [i \in 1..Len(s) |-> (7 * s[i] + i + n) % 256]

(* a < b for two strings, as Python compares them *)
RECURSIVE StrLess(_, _)
StrLess(a, b) ==
    IF b = << >> THEN FALSE
    ELSE IF a = << >> THEN TRUE
    ELSE IF Head(a) # Head(b) THEN Head(a) < Head(b)
    ELSE StrLess(Tail(a), Tail(b))

(* mutant: the sort key is the start alone *)
KeyLess_start_only(m, n) == m.start < n.start

(* the sort key (start, pitch, duration, velocity, id or ""), k1 < k2 *)
KeyLess(m, n) ==
    IF m.start # n.start THEN m.start < n.start
    ELSE IF m.pitch # n.pitch THEN m.pitch < n.pitch
    ELSE IF m.duration # n.duration THEN m.duration < n.duration
    ELSE IF m.velocity # n.velocity THEN m.velocity < n.velocity
    ELSE StrLess(m.id, n.id)

(* list.sort(key=...): a stable sort; Less(m, n) says m's key is below n's.
   Each element goes behind the elements of the sorted prefix whose key is
   not above its own. *)
Sorted(s, Less(_, _)) ==
    LET Insert(sorted, x) ==
            LET pos == Cardinality({i \in DOMAIN sorted : ~Less(x, sorted[i])})
            IN  SubSeq(sorted, 1, pos) \o <<x>> \o SubSeq(sorted, pos + 1, Len(sorted))
        srt[k \in 0..Len(s)] == IF k = 0 THEN << >> ELSE Insert(srt[k - 1], s[k])
    IN  srt[Len(s)]

(* lines 52-55: the name made a str *)
CoerceName(name, ti) ==
    IF name.kind = "none" THEN StrName(TrackText \o Digits(ti))
    ELSE IF name.kind = "int" THEN StrName(Digits(name.value[1]))
    ELSE name

(* lines 58-61 *)
RoundNote(ne) == [ne EXCEPT !.start = Round6(@), !.duration = Round6(@)]

(* line 65-66: the id given to a track that has none *)
TrackIdBase(ti, tr) ==
    Digits(ti) \o Bar \o tr.name.value \o Bar \o OptText(tr.channel) \o Bar \o OptText(tr.program)

EnsureTrackId(ti, tr) ==
    IF tr.id # NoId THEN tr
    ELSE [tr EXCEPT !.id = TrackIdPrefix \o sha1_short(TrackIdBase(ti, tr), 10)]

(* line 72 *)
NoteKey(ne) ==
    Digits(ne.pitch) \o Bar \o FloatText(ne.start) \o Bar \o FloatText(ne.duration)
        \o Bar \o Digits(ne.velocity)

(* lines 68-76: seen[key] when note i is reached counts the notes before it *)
(* that had no id and have the same key                                     *)
Occurrence(notes, i) ==
    Cardinality({j \in 1..(i - 1) : notes[j].id = NoId /\ NoteKey(notes[j]) = NoteKey(notes[i])})

EnsureNoteIds(tr) ==
    [tr EXCEPT !.notes =
        [i \in DOMAIN tr.notes |->
            IF tr.notes[i].id # NoId THEN tr.notes[i]
            ELSE [tr.notes[i] EXCEPT !.id =
                     NoteIdPrefix \o sha1_short(tr.id \o Bar \o NoteKey(tr.notes[i]) \o Bar
                                                    \o Digits(Occurrence(tr.notes, i)), 12)]]]

(* lines 49-86, for the track at index ti (counted from 0) *)
NormalizeTrack(ti, tr, ensure_ids) ==
    LET named == [tr EXCEPT !.name = CoerceName(@, ti)]
        rounded == [named EXCEPT !.notes = [i \in DOMAIN named.notes |-> RoundNote(named.notes[i])]]
        with_ids == IF ensure_ids THEN EnsureNoteIds(EnsureTrackId(ti, rounded)) ELSE rounded
    IN [with_ids EXCEPT !.notes = Sorted(@, KeyLess)]

(* normalize_score(doc): ScoreDoc.model_validate(doc.model_dump()) raises a *)
(* ValidationError for a document that breaks a field constraint            *)
normalize_score(d) ==
    IF ~ScoreDocValid(d) THEN [err |-> "ValidationError", value |-> None]
    ELSE [err |-> "ok",
          value |-> [d EXCEPT !.tracks =
                        [i \in DOMAIN d.tracks |-> NormalizeTrack(i - 1, d.tracks[i], TRUE)]]]

----------------------------------------------------------------------------
(* core/score_optimize.py: optimize_score                                   *)
(*                                                                           *)
(* A ratio is kept in hundredths (1.10 is 110, 0.30 is 30).  With grid_div  *)
(* at None the grid step is 0 and _quantize_note is not entered.            *)

(* OptimizeConfig(): the defaults of the dataclass *)
DefaultConfig ==
    [grid_div |-> NoneInt,
     quantize_mode |-> "nearest",
     min_pitch |-> NoneInt,
     max_pitch |-> NoneInt,
     velocity_target |-> 80,
     drop_weak_short_notes |-> TRUE,
     noise_min_duration |-> 60000000,
     noise_min_velocity |-> 30,
     merge_same_pitch_overlaps |-> FALSE,
     make_monophonic |-> TRUE,
     monophonic_switch_strength_ratio |-> 110,
     monophonic_min_switch_duration |-> 100000000,
     monophonic_switch_after_frac |-> 30,
     monophonic_delay_weak_overlaps |-> FALSE,
     eps |-> 1]

(* the configuration "score optimize --preset safe" builds when no flag is given *)
CliSafeConfig ==
    [DefaultConfig EXCEPT !.velocity_target = NoneInt,
                          !.noise_min_duration = 0,
                          !.noise_min_velocity = 0,
                          !.make_monophonic = FALSE]

(* the configuration "score optimize --preset strong" builds when no flag is
   given: --velocity defaults to 0, which leaves the velocities as they are *)
CliStrongConfig ==
    [DefaultConfig EXCEPT !.grid_div = 4,
                          !.min_pitch = 48,
                          !.max_pitch = 84,
                          !.velocity_target = NoneInt,
                          !.noise_min_duration = 30000000,
                          !.noise_min_velocity = 25,
                          !.merge_same_pitch_overlaps = TRUE,
                          !.make_monophonic = TRUE]

(* "score optimize --preset strong --velocity 80", the configuration of
   test_optimize_strong_quantizes_and_may_reduce_notes *)
CliStrongLevelled == [CliStrongConfig EXCEPT !.velocity_target = 80]

(* _step_seconds: (60 / tempo_bpm) / grid_div, for a tempo that divides 60000 *)
step_seconds(tempo_bpm, grid_div) ==
    IF grid_div = NoneInt \/ grid_div <= 0 THEN 0
    ELSE ((60000 \div tempo_bpm) * 1000000) \div grid_div

(* _quantize_value: round() takes a half to the even neighbour; on times in
   whole nanoseconds eps moves neither ceil(x - eps) nor floor(x + eps) *)
quantize_value(t, step, mode) ==
    IF step <= 0 THEN t
    ELSE LET lower == t \div step
             rest == t % step
             k == CASE mode = "nearest" ->
                           IF 2 * rest < step THEN lower
                           ELSE IF 2 * rest > step THEN lower + 1
                           ELSE IF lower % 2 = 0 THEN lower ELSE lower + 1
                    [] mode = "ceil" -> IF rest = 0 THEN lower ELSE lower + 1
                    [] OTHER -> lower
         IN k * step

(* _quantize_note: start and end go to the grid, and a note that would be
   left without length gets one step *)
quantize_note(ne, cfg, step) ==
    LET s == quantize_value(ne.start, step, cfg.quantize_mode)
        e0 == quantize_value(ne.start + ne.duration, step, cfg.quantize_mode)
        e == IF e0 <= s + cfg.eps
             THEN s + (IF step > 0 THEN step ELSE (IF ne.duration >= 1000000 THEN ne.duration ELSE 1000000))
             ELSE e0
    IN NoteEvent(NoId, ne.pitch, s, e - s, ne.velocity)

(* k * x as <<k * x \div 100000, k * x % 100000>>, for k up to 20000 *)
Times(k, x) ==
    LET low == k * (x % 100000)
    IN <<k * (x \div 100000) + (low \div 100000), low % 100000>>

ProductGeq(p, q) == p[1] > q[1] \/ (p[1] = q[1] /\ p[2] >= q[2])

is_noise(ne, cfg) ==
    /\ ne.duration < cfg.noise_min_duration
    /\ ne.velocity < cfg.noise_min_velocity

(* sort keys: (start, -velocity, -duration) and (start, pitch) *)
StrongerFirst(m, n) ==
    IF m.start # n.start THEN m.start < n.start
    ELSE IF m.velocity # n.velocity THEN m.velocity > n.velocity
    ELSE m.duration > n.duration

ByStartPitch(m, n) ==
    IF m.start # n.start THEN m.start < n.start ELSE m.pitch < n.pitch

Max(a, b) == IF a >= b THEN a ELSE b
Min(a, b) == IF a <= b THEN a ELSE b

(* lines 190-196 *)
should_switch(prev, ne, cfg) ==
    /\ ne.duration >= cfg.monophonic_min_switch_duration
    /\ \/ ProductGeq(Times(ne.velocity * 100, ne.duration),
                     Times(prev.velocity * cfg.monophonic_switch_strength_ratio, prev.duration))
       \/ /\ prev.duration > cfg.eps
          /\ ProductGeq(Times(100, ne.start - prev.start),
                        Times(cfg.monophonic_switch_after_frac, prev.duration))

(* lines 162-222: the loop over items from index i on, out being the list so far *)
RECURSIVE make_monophonic_from(_, _, _, _)
make_monophonic_from(items, i, out, cfg) ==
    IF i > Len(items) THEN out
    ELSE LET ne == items[i]
             prev == out[Len(out)]
             prev_end == prev.start + prev.duration
         IN IF cfg.drop_weak_short_notes /\ is_noise(ne, cfg)
            THEN make_monophonic_from(items, i + 1, out, cfg)
            ELSE IF out = << >>
            THEN make_monophonic_from(items, i + 1, <<ne>>, cfg)
            ELSE IF ne.start >= prev_end - cfg.eps
            THEN make_monophonic_from(items, i + 1, Append(out, ne), cfg)
            ELSE IF is_noise(ne, cfg)
            THEN make_monophonic_from(items, i + 1, out, cfg)
            ELSE IF should_switch(prev, ne, cfg)
            THEN make_monophonic_from(items, i + 1,
                     Append([out EXCEPT ![Len(out)] =
                                NoteEvent(NoId, prev.pitch, prev.start,
                                          Max(cfg.eps, ne.start - prev.start), prev.velocity)],
                            ne),
                     cfg)
            ELSE IF cfg.monophonic_delay_weak_overlaps
            THEN make_monophonic_from(items, i + 1,
                     Append(out, NoteEvent(NoId, ne.pitch, prev_end, ne.duration, ne.velocity)),
                     cfg)
            ELSE make_monophonic_from(items, i + 1, out, cfg)

make_monophonic(notes, cfg) ==
    make_monophonic_from(Sorted(notes, StrongerFirst), 1, << >>, cfg)

(* sort key (pitch, start, -duration) *)
ByPitchStart(m, n) ==
    IF m.pitch # n.pitch THEN m.pitch < n.pitch
    ELSE IF m.start # n.start THEN m.start < n.start
    ELSE m.duration > n.duration

(* lines 123-143: the loop over items from index i on, cur being the note
   that is growing and out the list so far *)
RECURSIVE merge_from(_, _, _, _, _)
merge_from(items, i, cur, out, cfg) ==
    IF i > Len(items) THEN Append(out, cur)
    ELSE LET ne == items[i]
             cur_end == cur.start + cur.duration
             ne_end == ne.start + ne.duration
             new_start == IF cur.start <= ne.start THEN cur.start ELSE ne.start
             new_end == IF cur_end >= ne_end THEN cur_end ELSE ne_end
         IN IF ne.pitch # cur.pitch \/ ne.start > cur_end + cfg.eps
            THEN merge_from(items, i + 1, ne, Append(out, cur), cfg)
            ELSE merge_from(items, i + 1,
                            NoteEvent(NoId, cur.pitch, new_start, new_end - new_start,
                                      IF cur.velocity >= ne.velocity
                                      THEN cur.velocity ELSE ne.velocity),
                            out, cfg)

(* _merge_same_pitch_overlaps *)
merge_same_pitch_overlaps(notes, cfg) ==
    IF notes = << >> THEN << >>
    ELSE LET items == Sorted(notes, ByPitchStart)
             merged == merge_from(items, 2, items[1], << >>, cfg)
             by_start(m, n) == IF m.start # n.start THEN m.start < n.start
                               ELSE m.pitch < n.pitch
         IN Sorted(merged, by_start)

(* lines 229-254: the note built for one that is kept *)
OptimizeNote(ne, cfg) ==
    LET low == IF cfg.min_pitch # NoneInt THEN Max(ne.pitch, cfg.min_pitch) ELSE ne.pitch
        pitch == IF cfg.max_pitch # NoneInt THEN Min(low, cfg.max_pitch) ELSE low
        vel == IF cfg.velocity_target # NoneInt THEN cfg.velocity_target ELSE ne.velocity
    IN NoteEvent(NoId, pitch, ne.start, ne.duration, vel)

(* _optimize_track; the Track it returns has no id *)
optimize_track(track, tempo_bpm, cfg) ==
    LET step == step_seconds(tempo_bpm, cfg.grid_div)
        quantized(notes) ==
            IF step > 0 THEN [i \in DOMAIN notes |-> quantize_note(notes[i], cfg, step)]
            ELSE notes
        kept == SelectSeq(track.notes, LAMBDA ne : ~(cfg.drop_weak_short_notes /\ is_noise(ne, cfg)))
        optimized == quantized([i \in DOMAIN kept |-> OptimizeNote(kept[i], cfg)])
        merged == IF cfg.merge_same_pitch_overlaps
                  THEN merge_same_pitch_overlaps(optimized, cfg) ELSE optimized
        mono == IF cfg.make_monophonic
                THEN quantized(make_monophonic(merged, cfg)) ELSE merged
    IN Track(NoId, track.name, track.program, track.channel, Sorted(mono, ByStartPitch))

(* optimize_score: NoteEvent(...), Track(...) and ScoreDoc(...) validate what *)
(* they are given                                                             *)
optimize_score(score, cfg) ==
    LET out == ScoreDoc(score.tempo_bpm,
                        [i \in DOMAIN score.tracks |->
                            optimize_track(score.tracks[i], score.tempo_bpm, cfg)])
    IN IF ~ScoreDocValid(out)
       THEN [err |-> "ValidationError", value |-> None]
       ELSE [err |-> "ok", value |-> out]

----------------------------------------------------------------------------
(* core/score_convert.py: midi_to_score (the mido reader) and score_to_midi *)
(*                                                                           *)
(* A MIDI file is [ticks_per_beat, tracks], a track the sequence of its     *)
(* messages [type, time, channel, note, velocity], time being the delta in  *)
(* ticks; a set_tempo message is [type, time, tempo].                       *)

(* tempo_map = [(0, 500000)] *)
DefaultTempo == 500000

(* 500 ticks to the quarter note: a tick is a millisecond *)
MidiFile(tracks) == [ticks_per_beat |-> 500, tracks |-> tracks]
EmptyMidi == MidiFile(<< >>)

Message(type, time, channel, note, velocity) ==
    [type |-> type, time |-> time, channel |-> channel, note |-> note, velocity |-> velocity]

(* mido.tick2second(tick, ppq, tempo), in nanoseconds *)
tick2second(tick, ppq, tempo) == tick * ((tempo \div ppq) * 1000)

SetTempo(time, tempo) == [type |-> "set_tempo", time |-> time, tempo |-> tempo]

(* lines 36-42: the (abs_tick, tempo) pairs of the set_tempo messages of one *)
(* track from index i on, and of all tracks                                  *)
RECURSIVE TempoEntries(_, _, _)
TempoEntries(msgs, i, abs_tick) ==
    IF i > Len(msgs) THEN {}
    ELSE LET at == abs_tick + msgs[i].time
         IN (IF msgs[i].type = "set_tempo"
             THEN {[tick |-> at, tempo |-> msgs[i].tempo]} ELSE {})
                \cup TempoEntries(msgs, i + 1, at)

FileTempos(m) == UNION {TempoEntries(m.tracks[t], 1, 0) : t \in DOMAIN m.tracks}

(* sorted(set(tempo_map), key=lambda x: x[0]): the sort is stable and its    *)
(* key is the tick alone, so entries of one tick stay in the order in which  *)
(* the set yields them, which the language does not fix.  The order the      *)
(* interpreter takes is carried with the file as set_order: of two entries   *)
(* of one tick the one of the lower tempo first ("ascending"), or the one of *)
(* the higher ("descending")                                                 *)
SetOrders == {"ascending", "descending"}
SetOrderOf(m) == IF "set_order" \in DOMAIN m THEN m.set_order ELSE "ascending"

ComesBefore(a, b, order) ==
    IF a.tick # b.tick THEN a.tick < b.tick
    ELSE IF order = "ascending" THEN a.tempo < b.tempo ELSE a.tempo > b.tempo

RECURSIVE SortedEntries(_, _)
SortedEntries(S, order) ==
    IF S = {} THEN << >>
    ELSE LET first == CHOOSE a \in S : \A b \in S \ {a} : ComesBefore(a, b, order)
         IN <<first>> \o SortedEntries(S \ {first}, order)

(* lines 33-44 *)
tempo_map(m) ==
    SortedEntries({[tick |-> 0, tempo |-> DefaultTempo]} \cup FileTempos(m), SetOrderOf(m))

(* lines 54-59: the loop over tempo_map[1:] from index i on *)
RECURSIVE seconds_from(_, _, _, _, _, _, _)
seconds_from(map, i, ppq, tick, sec, last_tick, cur_tempo) ==
    IF i > Len(map) \/ tick < map[i].tick
    THEN sec + tick2second(tick - last_tick, ppq, cur_tempo)
    ELSE seconds_from(map, i + 1, ppq, tick,
                      sec + tick2second(map[i].tick - last_tick, ppq, cur_tempo),
                      map[i].tick, map[i].tempo)

(* tick_to_seconds, lines 48-61 *)
tick_to_seconds(m, tick) ==
    IF tick <= 0 THEN 0
    ELSE seconds_from(tempo_map(m), 2, m.ticks_per_beat, tick, 0, 0, tempo_map(m)[1].tempo)

IsNoteOn(msg) == msg.type = "note_on" /\ msg.velocity > 0
IsNoteOff(msg) == msg.type = "note_off" \/ (msg.type = "note_on" /\ msg.velocity = 0)

(* lines 71-98: the messages of one track from index i on; st holds abs_tick, *)
(* active, seq_counter and the notes collected so far                          *)
RECURSIVE ScanTrack(_, _, _, _)
ScanTrack(m, msgs, i, st) ==
    IF i > Len(msgs) THEN st
    ELSE LET msg == msgs[i]
             abs_tick == st.abs_tick + msg.time
             key == <<msg.channel, msg.note>>
             at == [st EXCEPT !.abs_tick = abs_tick]
         IN IF IsNoteOn(msg)
            THEN ScanTrack(m, msgs, i + 1,
                     [at EXCEPT !.active = [k \in (DOMAIN st.active) \cup {key} |->
                                               IF k = key
                                               THEN [tick |-> abs_tick, vel |-> msg.velocity,
                                                     seq |-> st.seq_counter]
                                               ELSE st.active[k]],
                                !.seq_counter = @ + 1])
            ELSE IF IsNoteOff(msg) /\ key \in DOMAIN st.active
            THEN LET on == st.active[key]
                     popped == [k \in (DOMAIN st.active) \ {key} |-> st.active[k]]
                     st_sec == tick_to_seconds(m, on.tick)
                     end_sec == tick_to_seconds(m, abs_tick)
                     found == [channel |-> msg.channel, start |-> st_sec, seq |-> on.seq,
                               duration |-> Max(1000, end_sec - st_sec),
                               pitch |-> msg.note, velocity |-> on.vel]
                 IN ScanTrack(m, msgs, i + 1,
                        [at EXCEPT !.active = popped,
                                   !.notes = IF abs_tick <= on.tick THEN @ ELSE Append(@, found)])
            ELSE ScanTrack(m, msgs, i + 1, at)

(* the loop over mid.tracks: abs_tick and active start afresh in each track *)
RECURSIVE ScanTracks(_, _, _)
ScanTracks(m, t, st) ==
    IF t > Len(m.tracks) THEN st
    ELSE ScanTracks(m, t + 1,
             ScanTrack(m, m.tracks[t], 1, [st EXCEPT !.abs_tick = 0, !.active = << >>]))

BySeq(a, b) == IF a.start # b.start THEN a.start < b.start ELSE a.seq < b.seq

(* "ch" and the channel number *)
ChannelName(ch) == StrName(<<99, 104>> \o Digits(ch))

(* the channels in increasing order *)
RECURSIVE SortedChannels(_)
SortedChannels(S) ==
    IF S = {} THEN << >>
    ELSE LET least == CHOOSE c \in S : \A d \in S : c <= d
         IN <<least>> \o SortedChannels(S \ {least})

(* midi_to_score, lines 28-133 *)
midi_to_score(m) ==
    LET scan == ScanTracks(m, 1, [abs_tick |-> 0, active |-> << >>, seq_counter |-> 0,
                                  notes |-> << >>])
        min_start == CHOOSE s \in {scan.notes[i].start : i \in DOMAIN scan.notes} :
                         \A i \in DOMAIN scan.notes : s <= scan.notes[i].start
        channels == SortedChannels({scan.notes[i].channel : i \in DOMAIN scan.notes})
        track(ch) ==
            LET raw == Sorted(SelectSeq(scan.notes, LAMBDA n : n.channel = ch), BySeq)
            IN Track(NoId, ChannelName(ch), NoneInt, ch,
                     [i \in DOMAIN raw |->
                         NoteEvent(NoId, raw[i].pitch, Max(0, raw[i].start - min_start),
                                   raw[i].duration, Max(1, Min(127, raw[i].velocity)))])
    IN IF scan.notes = << >> THEN ScoreDoc(120, << >>)
       ELSE ScoreDoc(60000000 \div tempo_map(m)[1].tempo,
                     [c \in DOMAIN channels |-> track(channels[c])])

(* score_to_midi: the writer of music21, taken to place every note at its   *)
(* start for its duration, each track of the score in a MIDI track of its   *)
(* own on channel 0                                                          *)
ToTicks(ns) == (ns + 500000) \div 1000000

NoteMessages(tr) ==
    LET ons == [i \in DOMAIN tr.notes |->
                   [tick |-> ToTicks(tr.notes[i].start), off |-> 0, note |-> tr.notes[i].pitch,
                    velocity |-> tr.notes[i].velocity]]
        offs == [i \in DOMAIN tr.notes |->
                    [tick |-> ToTicks(tr.notes[i].start) + Max(1, ToTicks(tr.notes[i].duration)),
                     off |-> 1, note |-> tr.notes[i].pitch, velocity |-> 0]]
    IN ons \o offs

(* by tick, a note_off before a note_on of the same tick *)
ByTick(a, b) == IF a.tick # b.tick THEN a.tick < b.tick ELSE a.off > b.off

score_to_midi(score) ==
    LET track(tr) ==
            LET events == Sorted(NoteMessages(tr), ByTick)
            IN [i \in DOMAIN events |->
                   Message(IF events[i].off = 1 THEN "note_off" ELSE "note_on",
                           events[i].tick - (IF i = 1 THEN 0 ELSE events[i - 1].tick),
                           0, events[i].note, events[i].velocity)]
    IN MidiFile([t \in DOMAIN score.tracks |-> track(score.tracks[t])])

(* The Job Store driven directly *)

Init ==
    /\ tasks = << >>
    /\ issued = 0
    /\ fs = InitFiles
    /\ now = 0
    /\ deleted = 0
    /\ runs = << >>
    /\ calls = << >>
    /\ doc = EmptyScore
    /\ midi = EmptyMidi
    /\ lock = NoneStr
    /\ threads = << >>
    /\ committed = << >>
    /\ cli = << >>

CreateTask ==
    \E stage \in CreateStageArgs :
        /\ issued < Len(Uuid4Seq)
        /\ tasks' = create_task(tasks, uuid4(issued), stage, utcnow)
        /\ issued' = issued + 1
        /\ UNCHANGED <<fs, now, deleted, runs, calls, scoreVars, lockVars, cli>>

MarkRunning ==
    \E id \in IdArgs, stage \in StageArgs :
        /\ tasks' = mark_running(tasks, id, stage, utcnow).tasks
        /\ UNCHANGED <<issued, fs, now, deleted, runs, calls, scoreVars, lockVars, cli>>

UpdateProgress ==
    \E id \in IdArgs, progress \in ProgressArgs, stage \in StageArgs :
        /\ tasks' = update_progress(tasks, id, progress, stage, utcnow).tasks
        /\ UNCHANGED <<issued, fs, now, deleted, runs, calls, scoreVars, lockVars, cli>>

MarkCompleted ==
    \E id \in IdArgs, path \in ArtifactArgs, ft \in FileType,
       fmt \in FormatArgs, filename \in FilenameArgs :
        /\ tasks' = mark_completed(tasks, fs, id, path, ft, fmt, filename, utcnow).tasks
        /\ UNCHANGED <<issued, fs, now, deleted, runs, calls, scoreVars, lockVars, cli>>

MarkFailed ==
    \E id \in IdArgs, message \in MessageArgs, trace_id \in TraceArgs, stage \in StageArgs :
        /\ tasks' = mark_failed(tasks, id, message, trace_id, stage, utcnow).tasks
        /\ UNCHANGED <<issued, fs, now, deleted, runs, calls, scoreVars, lockVars, cli>>

AttachArtifact ==
    \E id \in IdArgs, path \in AttachArgs, ft \in FileType :
        /\ tasks' = attach_artifact(tasks, fs, id, path, ft, utcnow).tasks
        /\ UNCHANGED <<issued, fs, now, deleted, runs, calls, scoreVars, lockVars, cli>>

Prune ==
    \E max_age_seconds \in MaxAgeArgs :
        /\ tasks' = prune(tasks, max_age_seconds, utcnow).tasks
        /\ UNCHANGED <<issued, fs, now, deleted, runs, calls, scoreVars, lockVars, cli>>

(* the read methods change nothing *)
GetTaskInfo ==
    \E id \in IdArgs :
        /\ get_task_info(tasks, id).err \in {"ok", "NotFound", "ValidationError"}
        /\ UNCHANGED vars

GetArtifactPath ==
    \E id \in IdArgs, ft \in FileType :
        /\ get_artifact_path(tasks, fs, id, ft).err # ""
        /\ UNCHANGED vars

(* GET /tasks/{task_id} and GET /tasks/{task_id}/download change nothing *)
GetTaskStatus ==
    \E id \in IdArgs :
        /\ get_task_status(tasks, id).status \in {200, 404, 500}
        /\ UNCHANGED vars

DownloadArtifact ==
    \E id \in IdArgs, file_type \in FileTypeArgs :
        /\ download_artifact(tasks, fs, id, file_type).status \in {200, 400, 404, 409, 422, 500}
        /\ UNCHANGED vars

(* time passes *)
Tick ==
    /\ now < MaxTime
    /\ now' = now + 1
    /\ UNCHANGED <<tasks, issued, fs, deleted, runs, calls, scoreVars, lockVars, cli>>

(* a file is removed from disk by something other than the store *)
DeleteFile ==
    \E f \in fs :
        /\ deleted < MaxDeleted
        /\ fs' = fs \ {f}
        /\ deleted' = deleted + 1
        /\ UNCHANGED <<tasks, issued, now, runs, calls, scoreVars, lockVars, cli>>

Next ==
    \/ CreateTask
    \/ MarkRunning
    \/ UpdateProgress
    \/ MarkCompleted
    \/ MarkFailed
    \/ AttachArtifact
    \/ Prune
    \/ GetTaskInfo
    \/ GetArtifactPath
    \/ GetTaskStatus
    \/ DownloadArtifact
    \/ Tick
    \/ DeleteFile

Spec == Init /\ [][Next]_vars

----------------------------------------------------------------------------
(* routers/generation.py and core/generation_service.py: a job submitted   *)
(* over HTTP and processed by the orchestrator in the background.           *)
(* process_task is cut at its Job Store calls, at the runner call and at    *)
(* the file operations; runs[id].pc is the position of the run for job id,  *)
(* and calls[id] lists the Job Store calls the run has issued so far.       *)

(* str(e) of the exceptions process_task itself raises *)
InputMissingMessage == "Input file missing"
OutputMissingMessage == "Pipeline finished but output file missing"
MoveFailedMessage == "No such file or directory"

(* str(e) of the exception a rejected Job Store call raises *)
StoreErrorMessage(kind) ==
    CASE kind = "NotFound" -> "Task not found"
      [] kind = "AlreadyFinal" -> "task already finalized"
      [] kind = "OutOfRange" -> "progress must be within [0.0, 1.0]"
      [] kind = "FileMissing" -> "artifact_path does not exist"
      [] OTHER -> "validation error for TaskResult"

(* str(e) of what the runner may raise: RuntimeError() has the empty string *)
RunnerMessages == {"", "pipeline failed"}

(* what a runner call can do: raise, or return a path it has or has not written,
   in the working directory or already at its final place; the transcribe stage
   may have left its MIDI file in the output directory before the runner came
   back, with the audio or with an exception of the synthesis *)
RunnerOutcomes ==
    {[kind |-> "raise", message |-> m, final |-> FALSE, written |-> FALSE, midi |-> FALSE] :
         m \in RunnerMessages}
        \cup {[kind |-> "raise", message |-> "pipeline failed", final |-> FALSE,
                written |-> FALSE, midi |-> TRUE]}
        \cup {[kind |-> "return", message |-> NoneStr, final |-> fin, written |-> w, midi |-> FALSE] :
                 fin \in BOOLEAN, w \in BOOLEAN}
        \cup {[kind |-> "return", message |-> NoneStr, final |-> FALSE,
                written |-> TRUE, midi |-> TRUE]}

(* the files a runner call leaves on disk *)
RunnerFiles(tid, outcome, output_path) ==
    (IF outcome.written THEN {Str(output_path)} ELSE {})
        \cup (IF outcome.midi THEN {Str(MidiOut(tid))} ELSE {})

(* the locals of a process_task call at its entry *)
Frame(input_path, output_format) ==
    [pc |-> "start",
     current_stage |-> "preprocessing",
     input_path |-> input_path,
     output_format |-> output_format,
     output_path |-> None,
     message |-> NoneStr]

(* an exception with str(e) = message reaches the except clause *)
Raise(f, message) == [f EXCEPT !.pc = "except", !.message = message]

(* a Job Store call as the run issued it, and whether the store accepted it *)
Call(op, r) == [op |-> op, ok |-> r.err = "ok"]

(* after a Job Store call: on to the next position, or to the except clause *)
AfterCall(f, r, pc) ==
    IF r.err = "ok" THEN [f EXCEPT !.pc = pc] ELSE Raise(f, StoreErrorMessage(r.err))

(* chunk_size of _save_upload_file, in bytes *)
ChunkSize == 1048576

(* settings.max_upload_size_mb as configured, and the ceiling in bytes *)
MaxUploadSizeMb == 2
Limit == MaxUploadSizeMb * 1024 * 1024

(* the while loop of _save_upload_file on a body of which `remaining` bytes are
   still unread: total is the count so far, written the bytes in the file *)
RECURSIVE save_chunks(_, _, _)
save_chunks(remaining, total, written) ==
    LET chunk == IF remaining < ChunkSize THEN remaining ELSE ChunkSize IN
    IF chunk = 0
    THEN [status |-> 200, total |-> total, written |-> written, on_disk |-> TRUE]
    ELSE IF total + chunk > Limit
    THEN [status |-> 413, total |-> total + chunk, written |-> written, on_disk |-> FALSE]
    ELSE save_chunks(remaining - chunk, total + chunk, written + chunk)

(* mutant: the ceiling itself is refused *)
save_upload_file_strict(size) ==
    IF size >= Limit
    THEN [status |-> 413, total |-> size, written |-> 0, on_disk |-> FALSE]
    ELSE save_chunks(size, 0, 0)

(* _save_upload_file on a body of size bytes *)
save_upload_file(size) == save_chunks(size, 0, 0)

(* the name and the size of the uploaded file that clients send *)
UploadNameArgs == {"", "hum.wav"}
UploadSizeArgs == {0, Limit, Limit + 1}

(* what POST /generate answers when no job is accepted *)
Rejected(status, t, disk, drawn) ==
    [status |-> status, body |-> None, tasks |-> t, fs |-> disk,
     scheduled |-> None, drawn |-> drawn]

(* mutant: process_task is handed over before the upload is saved *)
generate_music_schedules_first(t, disk, n, filename, size, output_format, at) ==
    IF filename = "" THEN Rejected(400, t, disk, 0)
    ELSE LET tid == uuid4(n)
             created == create_task(t, tid, "preprocessing", at)
             input_path == InputPath(tid)
         IN [status |-> 202,
             body |-> [task_id |-> tid, status |-> "queued", poll_url |-> "/tasks/" \o tid],
             tasks |-> created,
             fs |-> IF save_upload_file(size).status = 200 /\ size > 0
                    THEN disk \cup {Str(input_path)} ELSE disk \ {Str(input_path)},
             scheduled |-> [pc |-> "start", current_stage |-> "preprocessing",
                            input_path |-> input_path, output_format |-> output_format,
                            output_path |-> None, message |-> NoneStr],
             drawn |-> 1]

(* mutant: an empty upload is answered 400 and its job is left as created *)
generate_music_empty_stays_queued(t, disk, n, filename, size, output_format, at) ==
    IF filename = "" THEN Rejected(400, t, disk, 0)
    ELSE LET tid == uuid4(n)
             created == create_task(t, tid, "preprocessing", at)
             input_path == InputPath(tid)
             saved == save_upload_file(size)
             rejected(t1) == mark_failed(t1, tid, "Upload rejected", NoneStr,
                                         "preprocessing", at).tasks
         IN IF saved.status # 200
            THEN Rejected(saved.status, rejected(created), disk \ {Str(input_path)}, 1)
            ELSE IF saved.total <= 0
            THEN Rejected(400, created, disk \ {Str(input_path)}, 1)
            ELSE [status |-> 202,
                  body |-> [task_id |-> tid, status |-> "queued", poll_url |-> "/tasks/" \o tid],
                  tasks |-> created,
                  fs |-> disk \cup {Str(input_path)},
                  scheduled |-> Frame(input_path, output_format),
                  drawn |-> 1]

(* str(e) of what reading the body or writing the file may raise *)
WriteErrors == {"", "No space left on device"}

(* POST /generate when _save_upload_file raises e, an exception that is not
   an HTTPException: the partial file is removed, the job is failed with
   f"Upload failed: {e}" and the request is answered 500 *)
generate_music_write_error(t, disk, n, filename, e, at) ==
    IF filename = "" THEN Rejected(400, t, disk, 0)
    ELSE LET tid == uuid4(n)
             created == create_task(t, tid, "preprocessing", at)
         IN Rejected(500,
                     mark_failed(created, tid, "Upload failed: " \o e, NoneStr,
                                 "preprocessing", at).tasks,
                     disk \ {Str(InputPath(tid))}, 1)

(* POST /generate: the job is created, the upload is saved, and process_task is
   handed to the background tasks; an empty or oversized upload fails the job *)
generate_music(t, disk, n, filename, size, output_format, at) ==
    IF filename = "" THEN Rejected(400, t, disk, 0)
    ELSE LET tid == uuid4(n)
             created == create_task(t, tid, "preprocessing", at)
             input_path == InputPath(tid)
             saved == save_upload_file(size)
             rejected(t1) == mark_failed(t1, tid, "Upload rejected", NoneStr,
                                         "preprocessing", at).tasks
         IN IF saved.status # 200
            THEN Rejected(saved.status, rejected(created), disk \ {Str(input_path)}, 1)
            ELSE IF saved.total <= 0
            THEN Rejected(400,
                          rejected(mark_failed(created, tid, "Empty file", NoneStr,
                                               "preprocessing", at).tasks),
                          disk \ {Str(input_path)}, 1)
            ELSE [status |-> 202,
                  body |-> [task_id |-> tid, status |-> "queued", poll_url |-> "/tasks/" \o tid],
                  tasks |-> created,
                  fs |-> disk \cup {Str(input_path)},
                  scheduled |-> Frame(input_path, output_format),
                  drawn |-> 1]

GenerateMusic ==
    \E filename \in UploadNameArgs, size \in UploadSizeArgs, output_format \in RouteFormats :
        /\ issued < Len(Uuid4Seq)
        /\ LET r == generate_music(tasks, fs, issued, filename, size, output_format, utcnow)
               tid == uuid4(issued)
           IN /\ tasks' = r.tasks
              /\ fs' = r.fs
              /\ issued' = issued + r.drawn
              /\ runs' = IF r.scheduled # None THEN Put(runs, tid, r.scheduled) ELSE runs
              /\ calls' = IF r.scheduled # None THEN Put(calls, tid, << >>) ELSE calls
        /\ UNCHANGED <<now, deleted, scoreVars, lockVars, cli>>

(* a POST /generate whose upload cannot be written *)
UploadFails ==
    \E filename \in UploadNameArgs, e \in WriteErrors :
        /\ issued < Len(Uuid4Seq)
        /\ LET r == generate_music_write_error(tasks, fs, issued, filename, e, utcnow)
           IN /\ tasks' = r.tasks
              /\ fs' = r.fs
              /\ issued' = issued + r.drawn
        /\ UNCHANGED <<now, deleted, runs, calls, scoreVars, lockVars, cli>>

(* the input check, then mark_running(stage=preprocessing) *)
CheckInputAndMarkRunning(tid) ==
    /\ tid \in DOMAIN runs
    /\ runs[tid].pc = "start"
    /\ LET f == runs[tid]
           r == mark_running(tasks, tid, "preprocessing", utcnow)
       IN IF Str(f.input_path) \notin fs
          THEN /\ runs' = [runs EXCEPT ![tid] = Raise(f, InputMissingMessage)]
               /\ UNCHANGED <<tasks, calls, scoreVars, lockVars, cli>>
          ELSE /\ tasks' = r.tasks
               /\ calls' = [calls EXCEPT ![tid] = Append(@, Call("mark_running", r))]
               /\ runs' = [runs EXCEPT ![tid] = AfterCall(f, r, "progress_01")]
    /\ UNCHANGED <<issued, fs, now, deleted, scoreVars, lockVars, cli>>

(* update_progress(0.1, stage=preprocessing); current_stage = converting *)
UpdateProgress01(tid) ==
    /\ tid \in DOMAIN runs
    /\ runs[tid].pc = "progress_01"
    /\ LET f == runs[tid]
           r == update_progress(tasks, tid, 1, "preprocessing", utcnow)
       IN /\ tasks' = r.tasks
          /\ calls' = [calls EXCEPT ![tid] = Append(@, Call("update_progress", r))]
          /\ runs' = [runs EXCEPT ![tid] =
                         IF r.err = "ok"
                         THEN [f EXCEPT !.pc = "progress_04", !.current_stage = "converting"]
                         ELSE Raise(f, StoreErrorMessage(r.err))]
    /\ UNCHANGED <<issued, fs, now, deleted, scoreVars, lockVars, cli>>

(* update_progress(0.4, stage=current_stage) *)
UpdateProgress04(tid) ==
    /\ tid \in DOMAIN runs
    /\ runs[tid].pc = "progress_04"
    /\ LET f == runs[tid]
           r == update_progress(tasks, tid, 4, f.current_stage, utcnow)
       IN /\ tasks' = r.tasks
          /\ calls' = [calls EXCEPT ![tid] = Append(@, Call("update_progress", r))]
          /\ runs' = [runs EXCEPT ![tid] = AfterCall(f, r, "runner")]
    /\ UNCHANGED <<issued, fs, now, deleted, scoreVars, lockVars, cli>>

(* output_path = runner(input_path, output_format), then the check that the
   output exists; current_stage = synthesizing *)
RunPipeline(tid) ==
    /\ tid \in DOMAIN runs
    /\ runs[tid].pc = "runner"
    /\ \E outcome \in RunnerOutcomes :
           LET f == runs[tid]
               output_path == IF outcome.final
                              THEN FinalPath(tid, f.output_format)
                              ELSE TempOut(tid, f.output_format)
           IN IF outcome.kind = "raise"
              THEN /\ runs' = [runs EXCEPT ![tid] = Raise(f, outcome.message)]
                   /\ fs' = fs \cup RunnerFiles(tid, outcome, output_path)
              ELSE /\ fs' = fs \cup RunnerFiles(tid, outcome, output_path)
                   /\ runs' = [runs EXCEPT ![tid] =
                                  IF Str(output_path) \in fs'
                                  THEN [f EXCEPT !.pc = "progress_08",
                                                 !.current_stage = "synthesizing",
                                                 !.output_path = output_path]
                                  ELSE Raise([f EXCEPT !.output_path = output_path],
                                             OutputMissingMessage)]
    /\ UNCHANGED <<tasks, issued, now, deleted, calls, scoreVars, lockVars, cli>>

(* update_progress(0.8, stage=current_stage) *)
UpdateProgress08(tid) ==
    /\ tid \in DOMAIN runs
    /\ runs[tid].pc = "progress_08"
    /\ LET f == runs[tid]
           r == update_progress(tasks, tid, 8, f.current_stage, utcnow)
       IN /\ tasks' = r.tasks
          /\ calls' = [calls EXCEPT ![tid] = Append(@, Call("update_progress", r))]
          /\ runs' = [runs EXCEPT ![tid] = AfterCall(f, r, "move")]
    /\ UNCHANGED <<issued, fs, now, deleted, scoreVars, lockVars, cli>>

(* mutant: the output is copied, not moved *)
MoveToArtifacts_copies(tid) ==
    /\ tid \in DOMAIN runs
    /\ runs[tid].pc = "move"
    /\ LET f == runs[tid]
           final_path == Resolve(FinalPath(tid, f.output_format))
       IN /\ runs' = [runs EXCEPT ![tid] = [f EXCEPT !.pc = "complete"]]
          /\ fs' = IF Str(f.output_path) \in fs THEN fs \cup {Str(final_path)} ELSE fs
    /\ UNCHANGED <<tasks, issued, now, deleted, calls, scoreVars, lockVars, cli>>

(* shutil.move(output_path, final_path) when the two differ *)
MoveToArtifacts(tid) ==
    /\ tid \in DOMAIN runs
    /\ runs[tid].pc = "move"
    /\ LET f == runs[tid]
           final_path == Resolve(FinalPath(tid, f.output_format))
       IN IF Resolve(f.output_path) = final_path
          THEN /\ runs' = [runs EXCEPT ![tid] = [f EXCEPT !.pc = "complete"]]
               /\ fs' = fs
          ELSE IF Str(f.output_path) \notin fs
          THEN /\ runs' = [runs EXCEPT ![tid] = Raise(f, MoveFailedMessage)]
               /\ fs' = fs
          ELSE /\ runs' = [runs EXCEPT ![tid] = [f EXCEPT !.pc = "complete"]]
               /\ fs' = (fs \ {Str(f.output_path)}) \cup {Str(final_path)}
    /\ UNCHANGED <<tasks, issued, now, deleted, calls, scoreVars, lockVars, cli>>

(* mark_completed(artifact_path=final_path, file_type=audio, output_format=None) *)
Complete(tid) ==
    /\ tid \in DOMAIN runs
    /\ runs[tid].pc = "complete"
    /\ LET f == runs[tid]
           r == mark_completed(tasks, fs, tid, FinalPath(tid, f.output_format),
                               "audio", NoneStr, NoneStr, utcnow)
       IN /\ tasks' = r.tasks
          /\ calls' = [calls EXCEPT ![tid] = Append(@, Call("mark_completed", r))]
          /\ runs' = [runs EXCEPT ![tid] = AfterCall(f, r, "finally")]
    /\ UNCHANGED <<issued, fs, now, deleted, scoreVars, lockVars, cli>>

(* mutant: the except clause only logs *)
HandleException_silent(tid) ==
    /\ tid \in DOMAIN runs
    /\ runs[tid].pc = "except"
    /\ runs' = [runs EXCEPT ![tid] = [@ EXCEPT !.pc = "finally"]]
    /\ UNCHANGED <<tasks, issued, fs, now, deleted, calls, scoreVars, lockVars, cli>>

(* except Exception as e: mark_failed(message=str(e), stage=current_stage), and
   whatever mark_failed raises is passed over *)
HandleException(tid) ==
    /\ tid \in DOMAIN runs
    /\ runs[tid].pc = "except"
    /\ LET f == runs[tid]
           r == mark_failed(tasks, tid, f.message, NoneStr, f.current_stage, utcnow)
       IN /\ tasks' = r.tasks
          /\ calls' = [calls EXCEPT ![tid] = Append(@, Call("mark_failed", r))]
          /\ runs' = [runs EXCEPT ![tid] = [f EXCEPT !.pc = "finally"]]
    /\ UNCHANGED <<issued, fs, now, deleted, scoreVars, lockVars, cli>>

(* mutant: the upload is kept when the run has failed *)
Cleanup_keeps_failed_input(tid) ==
    /\ tid \in DOMAIN runs
    /\ runs[tid].pc = "finally"
    /\ fs' = IF runs[tid].message = NoneStr THEN fs \ {Str(runs[tid].input_path)} ELSE fs
    /\ runs' = [runs EXCEPT ![tid] = [@ EXCEPT !.pc = "done"]]
    /\ UNCHANGED <<tasks, issued, now, deleted, calls, scoreVars, lockVars, cli>>

(* finally: the uploaded input is removed if it is still there; process_task returns *)
Cleanup(tid) ==
    /\ tid \in DOMAIN runs
    /\ runs[tid].pc = "finally"
    /\ fs' = fs \ {Str(runs[tid].input_path)}
    /\ runs' = [runs EXCEPT ![tid] = [@ EXCEPT !.pc = "done"]]
    /\ UNCHANGED <<tasks, issued, now, deleted, calls, scoreVars, lockVars, cli>>

StartRun == \E tid \in UUIDs : CheckInputAndMarkRunning(tid)
Progress01 == \E tid \in UUIDs : UpdateProgress01(tid)
Progress04 == \E tid \in UUIDs : UpdateProgress04(tid)
Runner == \E tid \in UUIDs : RunPipeline(tid)
Progress08 == \E tid \in UUIDs : UpdateProgress08(tid)
Move == \E tid \in UUIDs : MoveToArtifacts(tid)
Completion == \E tid \in UUIDs : Complete(tid)
Except == \E tid \in UUIDs : HandleException(tid)
Finally == \E tid \in UUIDs : Cleanup(tid)

----------------------------------------------------------------------------
(* app.py and routers/score.py: the score routes *)

(* the routers create_app() includes *)
IncludedRouters == {"health", "generation"}

(* what a route answers: a status, and the store and the disk it leaves *)
Answer(status, t, disk) == [status |-> status, tasks |-> t, fs |-> disk]

(* a request for a route of the named router: handled when create_app() has
   included that router, and answered 404 by the framework when it has not *)
Dispatch(router, answer, t, disk) ==
    IF router \in IncludedRouters THEN answer ELSE Answer(404, t, disk)

(* _ensure_task_completed: 200 stands for its returning normally *)
ensure_task_completed(t, task_id) ==
    LET r == get_task_info(t, task_id) IN
    IF r.err # "ok"
    THEN IF ExceptionClass(r.err) = "KeyError" THEN 404 ELSE 500
    ELSE IF r.value.status # "completed" THEN 409
    ELSE 200

(* _get_latest_midi_path: the bound midi artifact, else {output_dir}/{id}.mid,
   else NoneStr for the 409 it raises *)
get_latest_midi_path(t, disk, task_id) ==
    LET r == get_artifact_path(t, disk, task_id, "midi") IN
    IF r.err = "ok" THEN r.value
    ELSE IF Str(Resolve(MidiOut(task_id))) \in disk THEN Str(Resolve(MidiOut(task_id)))
    ELSE NoneStr

(* GET /tasks/{task_id}/score; parses says whether midi_to_score reads the MIDI *)
get_score(t, disk, task_id, parses) ==
    LET code == ensure_task_completed(t, task_id)
        score_json_path == Str(Resolve(ScoreJson(task_id)))
        midi_path == get_latest_midi_path(t, disk, task_id)
    IN IF code # 200 THEN Answer(code, t, disk)
       ELSE IF score_json_path \in disk THEN Answer(200, t, disk)
       ELSE IF midi_path = NoneStr THEN Answer(409, t, disk)
       ELSE IF ~parses THEN Answer(500, t, disk)
       ELSE Answer(200, t, disk \cup {score_json_path})

(* PUT /tasks/{task_id}/score with a valid ScoreDoc body *)
put_score(t, disk, task_id, at) ==
    LET code == ensure_task_completed(t, task_id)
        score_json_path == Str(Resolve(ScoreJson(task_id)))
        midi_out == Resolve(MidiOut(task_id))
        written == disk \cup {score_json_path, Str(midi_out)}
        r == attach_artifact(t, written, task_id, midi_out, "midi", at)
    IN IF code # 200 THEN Answer(code, t, disk)
       ELSE IF r.err # "ok" THEN Answer(500, t, written)
       ELSE Answer(200, r.tasks, written)

(* POST /tasks/{task_id}/render?output_format=...; synthesized says whether
   midi_to_audio returns *)
render_audio(t, disk, task_id, output_format, synthesized, at) ==
    LET code == ensure_task_completed(t, task_id)
        midi_path == get_latest_midi_path(t, disk, task_id)
        audio_path == Resolve(RenderOut(PathOf(midi_path).stem, output_format))
        written == disk \cup {Str(audio_path)}
        r == attach_artifact(t, written, task_id, audio_path, "audio", at)
    IN IF code # 200 THEN Answer(code, t, disk)
       ELSE IF midi_path = NoneStr THEN Answer(409, t, disk)
       ELSE IF ~synthesized THEN Answer(500, t, disk)
       ELSE IF r.err # "ok" THEN Answer(500, t, written)
       ELSE Answer(200, r.tasks, written)

(* the three score requests as the application answers them *)
GetScoreRequest(task_id, parses) ==
    Dispatch("score", get_score(tasks, fs, task_id, parses), tasks, fs)
PutScoreRequest(task_id) ==
    Dispatch("score", put_score(tasks, fs, task_id, utcnow), tasks, fs)
RenderRequest(task_id, output_format, synthesized) ==
    Dispatch("score", render_audio(tasks, fs, task_id, output_format, synthesized, utcnow),
             tasks, fs)

GetScore ==
    \E id \in IdArgs, parses \in BOOLEAN :
        /\ tasks' = GetScoreRequest(id, parses).tasks
        /\ fs' = GetScoreRequest(id, parses).fs
        /\ UNCHANGED <<issued, now, deleted, runs, calls, scoreVars, lockVars, cli>>

PutScore ==
    \E id \in IdArgs :
        /\ tasks' = PutScoreRequest(id).tasks
        /\ fs' = PutScoreRequest(id).fs
        /\ UNCHANGED <<issued, now, deleted, runs, calls, scoreVars, lockVars, cli>>

RenderAudio ==
    \E id \in IdArgs, output_format \in RouteFormats, synthesized \in BOOLEAN :
        /\ tasks' = RenderRequest(id, output_format, synthesized).tasks
        /\ fs' = RenderRequest(id, output_format, synthesized).fs
        /\ UNCHANGED <<issued, now, deleted, runs, calls, scoreVars, lockVars, cli>>

OrchNext ==
    \/ GenerateMusic
    \/ UploadFails
    \/ StartRun
    \/ Progress01
    \/ Progress04
    \/ Runner
    \/ Progress08
    \/ Move
    \/ Completion
    \/ Except
    \/ Finally
    \/ GetTaskStatus
    \/ DownloadArtifact
    \/ GetScore
    \/ PutScore
    \/ RenderAudio
    \/ DeleteFile

(* the service starts on an empty storage directory; the clock stands at its
   first reading throughout, updated_at being read by none of the steps above *)
OrchInit ==
    /\ tasks = << >>
    /\ issued = 0
    /\ fs = {}
    /\ now = 0
    /\ deleted = 0
    /\ runs = << >>
    /\ calls = << >>
    /\ doc = EmptyScore
    /\ midi = EmptyMidi
    /\ lock = NoneStr
    /\ threads = << >>
    /\ committed = << >>
    /\ cli = << >>

OrchSpec == OrchInit /\ [][OrchNext]_vars

----------------------------------------------------------------------------
(* Every call a caller can make on the store, over wider argument sets than *)
(* the actions draw from: the claims below examine each of these calls from  *)
(* every reachable state of the store.                                       *)

AnyStage == {NoneStr} \cup Stage
AnyProgress == {-1, 0, 1, 5, ProgressOne, 11}
AnyPath == {TakeWav, TuneMidi, BlobXyz, GhostMp3}
AnyFormat == {NoneStr} \cup OutputFormat
AnyFilename == {NoneStr, "", "renamed.bin"}
AnyMessage == {"", "boom"}
AnySuffix == {".mp3", ".wav", ".mid", ".midi", ".xyz", "", ".WAV"}

MarkRunningCalls ==
    {mark_running(tasks, id, st, now) : id \in IdArgs, st \in AnyStage}
UpdateProgressCalls ==
    {update_progress(tasks, id, pr, st, now) : id \in IdArgs, pr \in AnyProgress, st \in AnyStage}
MarkCompletedCalls ==
    {mark_completed(tasks, fs, id, pa, ft, fmt, fn, now) :
        id \in IdArgs, pa \in AnyPath, ft \in FileType, fmt \in AnyFormat, fn \in AnyFilename}
MarkFailedCalls ==
    {mark_failed(tasks, id, msg, NoneStr, st, now) : id \in IdArgs, msg \in AnyMessage, st \in AnyStage}
AttachArtifactCalls ==
    {attach_artifact(tasks, fs, id, pa, ft, now) : id \in IdArgs, pa \in AnyPath, ft \in FileType}

MutatingCalls ==
    MarkRunningCalls \cup UpdateProgressCalls \cup MarkCompletedCalls
        \cup MarkFailedCalls \cup AttachArtifactCalls

(* the output format mark_completed works with: the one given, else the inferred one *)
EffectiveFormat(path, fmt) ==
    IF fmt # NoneStr THEN fmt ELSE infer_output_format_from_path(Resolve(path))

(* the pairs the contract allows *)
ConsistentPair(ft, fmt) ==
    \/ ft = "midi" /\ fmt = "mid"
    \/ ft = "audio" /\ fmt \in {"mp3", "wav"}

----------------------------------------------------------------------------
(* C1: in every reachable store, status=completed iff result is set, error  *)
(* is null and progress is 1.0; status=failed iff error is set and result   *)
(* is null; so get_task_info passes contract validation for every job.      *)
C1_ContractInvariants ==
    \A id \in DOMAIN tasks :
        LET rec == tasks[id] IN
        /\ (rec.status = "completed")
              <=> (rec.result # None /\ rec.error = None /\ rec.progress = ProgressOne)
        /\ (rec.status = "failed") <=> (rec.error # None /\ rec.result = None)
        /\ get_task_info(tasks, id).err = "ok"

C1_Witness ==
    \E a, b \in DOMAIN tasks :
        /\ tasks[a].status = "completed"
        /\ tasks[b].status = "failed"
        /\ tasks[b].progress = ProgressOne

----------------------------------------------------------------------------
(* C2 *)

(* a finalized job that is still in the store keeps its status, result and error *)
FinalizedFrozen ==
    \A id \in DOMAIN tasks :
        (tasks[id].status \in {"completed", "failed"} /\ id \in DOMAIN tasks')
            => /\ tasks'[id].status = tasks[id].status
               /\ tasks'[id].result = tasks[id].result
               /\ tasks'[id].error = tasks[id].error

(* the four state-changing calls on a finalized job all fail *)
FinalizedRejectsAll ==
    \A id \in DOMAIN tasks :
        tasks[id].status \in {"completed", "failed"} =>
            /\ \A st \in AnyStage : mark_running(tasks, id, st, now).err # "ok"
            /\ \A pr \in AnyProgress, st \in AnyStage :
                  update_progress(tasks, id, pr, st, now).err # "ok"
            /\ \A pa \in AnyPath, ft \in FileType, fmt \in AnyFormat, fn \in AnyFilename :
                  mark_completed(tasks, fs, id, pa, ft, fmt, fn, now).err # "ok"
            /\ \A msg \in AnyMessage, st \in AnyStage :
                  mark_failed(tasks, id, msg, NoneStr, st, now).err # "ok"

(* ... with AlreadyFinal whenever the call's own arguments are valid *)
FinalizedRejectsValidWithAlreadyFinal ==
    \A id \in DOMAIN tasks :
        tasks[id].status \in {"completed", "failed"} =>
            /\ \A st \in AnyStage : mark_running(tasks, id, st, now).err = "AlreadyFinal"
            /\ \A pr \in AnyProgress, st \in AnyStage :
                  (0 <= pr /\ pr <= ProgressOne)
                      => update_progress(tasks, id, pr, st, now).err = "AlreadyFinal"
            /\ \A pa \in AnyPath, ft \in FileType, fmt \in AnyFormat, fn \in AnyFilename :
                  (Exists(pa) /\ ConsistentPair(ft, EffectiveFormat(pa, fmt)))
                      => mark_completed(tasks, fs, id, pa, ft, fmt, fn, now).err = "AlreadyFinal"
            /\ \A msg \in AnyMessage, st \in AnyStage :
                  msg # "" => mark_failed(tasks, id, msg, NoneStr, st, now).err = "AlreadyFinal"

(* ... with AlreadyFinal whatever the arguments *)
FinalizedRejectsAllWithAlreadyFinal ==
    \A id \in DOMAIN tasks :
        tasks[id].status \in {"completed", "failed"} =>
            /\ \A st \in AnyStage : mark_running(tasks, id, st, now).err = "AlreadyFinal"
            /\ \A pr \in AnyProgress, st \in AnyStage :
                  update_progress(tasks, id, pr, st, now).err = "AlreadyFinal"
            /\ \A pa \in AnyPath, ft \in FileType, fmt \in AnyFormat, fn \in AnyFilename :
                  mark_completed(tasks, fs, id, pa, ft, fmt, fn, now).err = "AlreadyFinal"
            /\ \A msg \in AnyMessage, st \in AnyStage :
                  mark_failed(tasks, id, msg, NoneStr, st, now).err = "AlreadyFinal"

(* C2 as claimed: a completed or failed job never changes status again, a    *)
(* failed job keeps its error, and mark_running, update_progress,            *)
(* mark_completed and mark_failed on a finalized job are each rejected with  *)
(* AlreadyFinal.                                                             *)
C2_Original ==
    /\ [][FinalizedFrozen]_vars
    /\ []FinalizedRejectsAllWithAlreadyFinal

(* C2 as amended: a completed or failed job never changes status, result or  *)
(* error again while it is in the store; the four calls on a finalized job   *)
(* are each rejected, with AlreadyFinal when the call's own arguments are    *)
(* valid (an out-of-range progress, a missing artifact file, an inconsistent *)
(* result format and an empty message are rejected first, by their own       *)
(* errors).                                                                  *)
C2_FinalizedNeverChanges ==
    /\ [][FinalizedFrozen]_vars
    /\ [](FinalizedRejectsAll /\ FinalizedRejectsValidWithAlreadyFinal)

(* a job failed at an earlier time is still failed with its first message,   *)
(* next to a job completed at an earlier time                                *)
C2_Witness ==
    \E a, b \in DOMAIN tasks :
        /\ tasks[a].status = "failed" /\ tasks[a].error.message = "boom"
        /\ tasks[a].updated_at < now
        /\ tasks[b].status = "completed"
        /\ tasks[b].updated_at < now

----------------------------------------------------------------------------
(* C3: a Job Store call that fails, for whatever reason, leaves the whole    *)
(* store as it was: every job's status, progress, stage, result, error,      *)
(* artifact bindings and updated_at.                                         *)
C3_FailedCallChangesNothing ==
    \A r \in MutatingCalls : r.err # "ok" => r.tasks = tasks

(* the store holds two jobs, one of them finalized, and calls fail on it for *)
(* each of the reasons                                                       *)
C3_Witness ==
    /\ Cardinality(DOMAIN tasks) = 2
    /\ \E id \in DOMAIN tasks : tasks[id].status = "running" /\ tasks[id].updated_at < now
    /\ {"NotFound", "AlreadyFinal", "OutOfRange", "FileMissing", "NotCompleted",
        "ValidationError"} \subseteq {r.err : r \in MutatingCalls}

----------------------------------------------------------------------------
(* C4 *)

AttachOnlyWhenCompleted ==
    \A id \in IdArgs, pa \in AnyPath, ft \in FileType :
        attach_artifact(tasks, fs, id, pa, ft, now).err = "ok"
            => (id \in DOMAIN tasks /\ tasks[id].status = "completed")

(* a binding exists only on a job that mark_completed has completed *)
BoundOnlyWhenCompleted ==
    \A id \in DOMAIN tasks :
        tasks[id].artifact_paths # << >> => tasks[id].status = "completed"

(* C4 as claimed: attach_artifact succeeds only on a completed job, and on a *)
(* queued, running or failed job it fails with NotCompleted.                 *)
C4_Original ==
    /\ AttachOnlyWhenCompleted
    /\ BoundOnlyWhenCompleted
    /\ \A id \in DOMAIN tasks, pa \in AnyPath, ft \in FileType :
          tasks[id].status # "completed"
              => attach_artifact(tasks, fs, id, pa, ft, now).err = "NotCompleted"

(* C4 as amended: attach_artifact succeeds only on a completed job; on a     *)
(* queued, running or failed job it fails, with NotCompleted when the        *)
(* artifact file exists and with FileMissing when it does not (the file is   *)
(* looked at before the job). So a binding is only ever seen on a job that   *)
(* mark_completed has completed.                                             *)
C4_AttachNeedsCompleted ==
    /\ AttachOnlyWhenCompleted
    /\ BoundOnlyWhenCompleted
    /\ \A id \in DOMAIN tasks, pa \in AnyPath, ft \in FileType :
          tasks[id].status # "completed"
              => attach_artifact(tasks, fs, id, pa, ft, now).err
                    = IF Exists(pa) THEN "NotCompleted" ELSE "FileMissing"

(* a job completed with its audio has had a midi attached afterwards, while  *)
(* the other job is not completed                                            *)
C4_Witness ==
    \E a, b \in DOMAIN tasks :
        /\ tasks[a].status = "completed"
        /\ tasks[a].result.file_type = "audio"
        /\ "midi" \in DOMAIN tasks[a].artifact_paths
        /\ tasks[b].status \in {"queued", "running", "failed"}

----------------------------------------------------------------------------
(* C5: get_artifact_path returns a path only for a completed job whose kind  *)
(* is bound to a file that exists; otherwise it fails with NotCompleted,     *)
(* ArtifactUnavailable or FileMissing, decided in that order; a returned     *)
(* path exists on disk.                                                      *)
C5_GetArtifactPath ==
    \A id \in DOMAIN tasks, ft \in FileType :
        LET rec == tasks[id]
            got == get_artifact_path(tasks, fs, id, ft)
            bound == ft \in DOMAIN rec.artifact_paths
        IN /\ got.err = "ok"
                => /\ rec.status = "completed" /\ bound
                   /\ got.value = rec.artifact_paths[ft]
                   /\ got.value \in fs
           /\ got.err \in {"ok", "NotCompleted", "ArtifactUnavailable", "FileMissing"}
           /\ rec.status # "completed" => got.err = "NotCompleted"
           /\ (rec.status = "completed" /\ ~bound) => got.err = "ArtifactUnavailable"
           /\ (rec.status = "completed" /\ bound /\ rec.artifact_paths[ft] \notin fs)
                => got.err = "FileMissing"
           /\ (rec.status = "completed" /\ bound /\ rec.artifact_paths[ft] \in fs)
                => got.err = "ok"

(* one completed job answers each way: its midi is not bound, its audio file *)
(* is gone from disk; the other job answers with a path                      *)
C5_Witness ==
    \E a, b \in DOMAIN tasks :
        /\ get_artifact_path(tasks, fs, a, "audio").err = "FileMissing"
        /\ get_artifact_path(tasks, fs, a, "midi").err = "ArtifactUnavailable"
        /\ get_artifact_path(tasks, fs, b, "midi").err = "ok"

----------------------------------------------------------------------------
(* C6: on a queued or running job, update_progress with 0 <= p <= 1 (0 and   *)
(* 1.0 included) sets progress to p and leaves the job running: it promotes  *)
(* queued to running and never completes the job; a p outside [0,1] is       *)
(* rejected with OutOfRange.                                                 *)
C6_UpdateProgress ==
    /\ \A id \in DOMAIN tasks, pr \in AnyProgress, st \in AnyStage :
          tasks[id].status \in {"queued", "running"} =>
              LET r == update_progress(tasks, id, pr, st, now) IN
              IF 0 <= pr /\ pr <= ProgressOne
              THEN /\ r.err = "ok"
                   /\ r.tasks[id].progress = pr
                   /\ r.tasks[id].status = "running"
                   /\ r.tasks[id].result = None
              ELSE r.err = "OutOfRange"
    /\ \A id \in IdArgs, pr \in AnyProgress, st \in AnyStage :
          ~(0 <= pr /\ pr <= ProgressOne)
              => update_progress(tasks, id, pr, st, now).err = "OutOfRange"
    /\ \A id \in DOMAIN tasks :
          tasks[id].status = "queued" => tasks[id].progress = 0

(* update_progress(1.0) has run on one job and update_progress(0) has        *)
(* promoted the other: both are running                                      *)
C6_Witness ==
    \E a, b \in DOMAIN tasks :
        /\ tasks[a].status = "running" /\ tasks[a].progress = ProgressOne
        /\ tasks[b].status = "running" /\ tasks[b].progress = 0
        /\ tasks[b].stage = "preprocessing"

----------------------------------------------------------------------------
(* C7 *)

(* what a successful mark_completed leaves in the job *)
CompletedAs(rec, id, pa, ft, fn) ==
    /\ rec.status = "completed"
    /\ rec.progress = ProgressOne
    /\ rec.stage = "finalizing"
    /\ rec.error = None
    /\ ft \in DOMAIN rec.artifact_paths
    /\ rec.artifact_paths[ft]
          = (IF pa.parent = "." THEN Cwd ELSE pa.parent) \o "/" \o pa.stem \o pa.suffix
    /\ rec.result.file_type = ft
    /\ rec.result.download_url = "/tasks/" \o id \o "/download?file_type=" \o ft
    /\ rec.result.filename = IF fn \in {NoneStr, ""} THEN pa.stem \o pa.suffix ELSE fn

(* C7 as claimed: mark_completed on a queued or running job whose artifact   *)
(* file exists completes the job (status, progress 1.0, stage finalizing,    *)
(* binding to the resolved path, download_url, filename defaulting to the    *)
(* file name), and fails with FileMissing when the file does not exist.      *)
C7_Original ==
    \A id \in DOMAIN tasks, pa \in AnyPath, ft \in FileType,
       fmt \in AnyFormat, fn \in AnyFilename :
        tasks[id].status \in {"queued", "running"} =>
            LET r == mark_completed(tasks, fs, id, pa, ft, fmt, fn, now) IN
            IF Exists(pa)
            THEN r.err = "ok" /\ CompletedAs(r.tasks[id], id, pa, ft, fn)
            ELSE r.err = "FileMissing"

(* C7 as amended: mark_completed on a queued or running job whose artifact   *)
(* file exists and whose file_kind agrees with the output format (given, or  *)
(* inferred from the extension) completes the job as claimed; with a         *)
(* file_kind and format that disagree it is rejected by the result's         *)
(* validation and the job is left as it was; it fails with FileMissing when  *)
(* the file does not exist.                                                  *)
C7_MarkCompleted ==
    \A id \in DOMAIN tasks, pa \in AnyPath, ft \in FileType,
       fmt \in AnyFormat, fn \in AnyFilename :
        tasks[id].status \in {"queued", "running"} =>
            LET r == mark_completed(tasks, fs, id, pa, ft, fmt, fn, now) IN
            IF ~Exists(pa) THEN r.err = "FileMissing"
            ELSE IF ConsistentPair(ft, EffectiveFormat(pa, fmt))
            THEN r.err = "ok" /\ CompletedAs(r.tasks[id], id, pa, ft, fn)
            ELSE r.err = "ValidationError" /\ r.tasks = tasks

(* a job completed from the relative path take.WAV: bound to the resolved    *)
(* path, named after the file, while the other job is still running          *)
C7_Witness ==
    \E a, b \in DOMAIN tasks :
        /\ CompletedAs(tasks[a], a, TakeWav, "audio", NoneStr)
        /\ tasks[a].artifact_paths["audio"] = "/srv/take.WAV"
        /\ tasks[a].result.filename = "take.WAV"
        /\ tasks[b].status = "running"

----------------------------------------------------------------------------
(* C8 *)

(* the format the extension stands for, upper or lower case *)
ExpectedFormat(suffix) ==
    CASE suffix \in {".mp3", ".MP3"} -> "mp3"
      [] suffix \in {".wav", ".WAV"} -> "wav"
      [] suffix \in {".mid", ".midi", ".MID"} -> "mid"
      [] OTHER -> "mp3"

(* C8: every completed job has a result whose file_kind and output_format    *)
(* agree (midi with mid, audio with mp3 or wav), whatever mark_completed     *)
(* call completed it; an omitted output_format is the one the extension      *)
(* stands for, mp3 for any other extension; a call whose file_kind and       *)
(* format disagree is rejected and the job stays non-final.                  *)
C8_ResultFormat ==
    /\ \A id \in DOMAIN tasks :
          tasks[id].status = "completed"
              => ConsistentPair(tasks[id].result.file_type, tasks[id].result.output_format)
    /\ \A suffix \in AnySuffix :
          infer_output_format_from_path(MkPath("/out", "x", suffix)) = ExpectedFormat(suffix)
    /\ \A id \in DOMAIN tasks, pa \in AnyPath, ft \in FileType,
          fmt \in AnyFormat, fn \in AnyFilename :
          LET r == mark_completed(tasks, fs, id, pa, ft, fmt, fn, now)
              wanted == IF fmt = NoneStr THEN ExpectedFormat(pa.suffix) ELSE fmt
          IN /\ r.err = "ok"
                  => /\ r.tasks[id].result.file_type = ft
                     /\ r.tasks[id].result.output_format = wanted
                     /\ ConsistentPair(ft, wanted)
             /\ (Exists(pa) /\ ~ConsistentPair(ft, wanted) /\ tasks[id].status \in {"queued", "running"})
                  => /\ r.err = "ValidationError"
                     /\ r.tasks = tasks

(* one job completed as midi from tune.midi with the format inferred, the    *)
(* other as audio from take.WAV                                              *)
C8_Witness ==
    \E a, b \in DOMAIN tasks :
        /\ tasks[a].status = "completed"
        /\ tasks[a].result.file_type = "midi"
        /\ tasks[a].result.output_format = "mid"
        /\ tasks[a].result.filename = "tune.midi"
        /\ tasks[b].status = "completed"
        /\ tasks[b].result.file_type = "audio"
        /\ tasks[b].result.output_format = "wav"

----------------------------------------------------------------------------
(* C9: every process_task run on an existing queued job ends with the job   *)
(* finalized: when the run has returned, the job's status is completed or   *)
(* failed, never queued or running, whatever exception a stage raised and   *)
(* whatever its message, the empty message included.  No exception escapes: *)
(* every run that starts reaches its return through the except and finally  *)
(* clauses.  The code does not satisfy the first part: a runner that raises *)
(* an exception whose message is empty makes mark_failed reject the call,   *)
(* the rejection is passed over, and the run returns with the job running.  *)
C9_RunEndsFinalized ==
    \A id \in DOMAIN runs :
        runs[id].pc = "done" => tasks[id].status \in {"completed", "failed"}

(* the state the run above ends in *)
C9_ReturnedWhileRunning ==
    \E id \in DOMAIN runs :
        /\ runs[id].pc = "done"
        /\ runs[id].message = ""
        /\ tasks[id].status = "running"
        /\ tasks[id].progress = 4
        /\ calls[id][Len(calls[id])] = [op |-> "mark_failed", ok |-> FALSE]

----------------------------------------------------------------------------
(* C10: the order of the Job Store calls of one run *)

(* the names of the calls issued so far by the run for job id *)
Ops(id) == [i \in DOMAIN calls[id] |-> calls[id][i].op]

IsPrefix(s, t) == Len(s) <= Len(t) /\ s = SubSeq(t, 1, Len(s))

(* n times update_progress *)
Updates(n) == [i \in 1..n |-> "update_progress"]

(* mark_running, one or more update_progress, exactly one of the two final calls *)
OrderAsStated ==
    {<<"mark_running">> \o Updates(n) \o <<last>> :
        n \in 1..3, last \in {"mark_completed", "mark_failed"}}

(* the same, and mark_failed after a mark_completed *)
OrderWithRejectedCompletion ==
    OrderAsStated \cup
        {<<"mark_running">> \o Updates(3) \o <<"mark_completed", "mark_failed">>}

(* C10 as stated: in every run, the input-missing runs included, the calls  *)
(* so far begin an order of the stated shape and the calls of a run that    *)
(* has returned are one.                                                     *)
C10_Original ==
    \A id \in DOMAIN runs :
        /\ \E o \in OrderAsStated : IsPrefix(Ops(id), o)
        /\ runs[id].pc = "done" => Ops(id) \in OrderAsStated

(* C10 amended: a run whose input file exists when it starts issues         *)
(* mark_running, then one to three update_progress, then mark_completed or  *)
(* mark_failed, and mark_failed after mark_completed only when the store    *)
(* rejected mark_completed; every call before the final ones is accepted.   *)
(* A run whose input file is missing issues mark_failed and nothing else.   *)
C10_CallOrder ==
    \A id \in DOMAIN runs :
        LET ops == Ops(id)
            n == Len(ops)
            done == runs[id].pc = "done"
        IN IF runs[id].message = InputMissingMessage
           THEN /\ IsPrefix(ops, <<"mark_failed">>)
                /\ done => ops = <<"mark_failed">>
           ELSE /\ \E o \in OrderWithRejectedCompletion : IsPrefix(ops, o)
                /\ done => ops \in OrderWithRejectedCompletion
                /\ runs[id].pc # "start" => n >= 1 /\ ops[1] = "mark_running"
                /\ \A i \in 1..n :
                       /\ ops[i] \in {"mark_running", "update_progress"} => calls[id][i].ok
                       /\ (ops[i] = "mark_completed" /\ i < n) => ~calls[id][i].ok
                       /\ (ops[i] = "mark_completed" /\ done /\ i = n) => calls[id][i].ok

(* both kinds of run have returned: one with the input missing, and one     *)
(* through all three update_progress calls and an accepted mark_completed   *)
C10_Witness ==
    /\ \E id \in DOMAIN runs :
           /\ runs[id].pc = "done"
           /\ runs[id].message = InputMissingMessage
           /\ Ops(id) = <<"mark_failed">>
    /\ \E id \in DOMAIN runs :
           /\ runs[id].pc = "done"
           /\ Ops(id) = <<"mark_running">> \o Updates(3) \o <<"mark_completed">>
           /\ tasks[id].status = "completed"

----------------------------------------------------------------------------
(* C11: when process_task has returned - the job completed or failed, and   *)
(* whichever step failed - the uploaded file at input_path is no longer on  *)
(* disk.                                                                     *)
C11_UploadRemoved ==
    \A id \in DOMAIN runs :
        runs[id].pc = "done" => Str(runs[id].input_path) \notin fs

(* a completed run and a failed run have both returned, and nothing but the *)
(* runs themselves has removed a file                                        *)
C11_Witness ==
    /\ deleted = 0
    /\ \E id \in DOMAIN runs :
           /\ runs[id].pc = "done"
           /\ tasks[id].status = "completed"
           /\ Str(runs[id].input_path) \notin fs
    /\ \E id \in DOMAIN runs :
           /\ runs[id].pc = "done"
           /\ tasks[id].status = "failed"
           /\ runs[id].current_stage = "converting"
           /\ Str(runs[id].input_path) \notin fs

----------------------------------------------------------------------------
(* C12: a job whose run failed at any point stays in the store and is       *)
(* queryable with status failed and with the message of the exception it    *)
(* failed with; no artifact of either kind is bound for it or retrievable   *)
(* (get_artifact_path fails with NotCompleted), even when the stages left   *)
(* files behind.  The code does not satisfy this for a run that failed with *)
(* an exception of empty message: that job is queryable as running, with no *)
(* error.                                                                    *)
C12_FailedRunQueryable ==
    \A id \in DOMAIN runs :
        (runs[id].pc = "done" /\ runs[id].message # NoneStr) =>
            /\ id \in DOMAIN tasks
            /\ get_task_status(tasks, id).status = 200
            /\ get_task_status(tasks, id).body.status = "failed"
            /\ get_task_status(tasks, id).body.error # None
            /\ get_task_status(tasks, id).body.error.message = runs[id].message
            /\ tasks[id].artifact_paths = << >>
            /\ \A ft \in FileType :
                   get_artifact_path(tasks, fs, id, ft).err = "NotCompleted"

(* the part of C12 that the code does satisfy: a job whose status is failed *)
(* has an error with a message, no artifact bound, and NotCompleted for     *)
(* both kinds, also with the MIDI of the transcribe stage on disk            *)
C12_FailedJobHasNoArtifact ==
    \A id \in DOMAIN tasks :
        tasks[id].status = "failed" =>
            /\ get_task_status(tasks, id).status = 200
            /\ get_task_status(tasks, id).body.error.message # ""
            /\ tasks[id].artifact_paths = << >>
            /\ \A ft \in FileType :
                   get_artifact_path(tasks, fs, id, ft).err = "NotCompleted"

----------------------------------------------------------------------------
(* C13: when the runner has returned an output file that exists, and no     *)
(* file is removed from outside the program, process_task ends with that    *)
(* file at artifacts/{job_id}.{output_format} - moved there, or left where  *)
(* it is when that is already its path - with the job completed at         *)
(* progress 1.0 and the audio artifact bound to exactly that path.          *)
C13_OutputAtCanonicalPath ==
    \A id \in DOMAIN runs :
        (/\ runs[id].pc = "done"
         /\ runs[id].current_stage = "synthesizing"
         /\ deleted = 0) =>
            LET final == Str(Resolve(FinalPath(id, runs[id].output_format))) IN
            /\ final \in fs
            /\ Str(Resolve(runs[id].output_path)) # final
                   => Str(Resolve(runs[id].output_path)) \notin fs
            /\ tasks[id].status = "completed"
            /\ tasks[id].progress = ProgressOne
            /\ DOMAIN tasks[id].artifact_paths = {"audio"}
            /\ tasks[id].artifact_paths["audio"] = final
            /\ get_artifact_path(tasks, fs, id, "audio") = [err |-> "ok", value |-> final]

(* one run has ended with its output moved, another with its output left in place *)
C13_Witness ==
    /\ deleted = 0
    /\ \E id \in DOMAIN runs :
           /\ runs[id].pc = "done"
           /\ runs[id].output_path = TempOut(id, runs[id].output_format)
           /\ tasks[id].status = "completed"
           /\ Str(TempOut(id, runs[id].output_format)) \notin fs
           /\ Str(FinalPath(id, runs[id].output_format)) \in fs
    /\ \E id \in DOMAIN runs :
           /\ runs[id].pc = "done"
           /\ runs[id].output_path = FinalPath(id, runs[id].output_format)
           /\ tasks[id].status = "completed"
           /\ Str(FinalPath(id, runs[id].output_format)) \in fs

----------------------------------------------------------------------------
(* C14: after a successful run in which the transcribe stage produced a     *)
(* MIDI file, the job's midi artifact is bound - attach_artifact for midi   *)
(* follows mark_completed - so that get_artifact_path(id, midi) and         *)
(* GET /tasks/{id}/download?file_type=midi succeed.  The code does not      *)
(* satisfy this: process_task never calls attach_artifact.                  *)
C14_MidiBoundAfterRun ==
    \A id \in DOMAIN runs :
        (/\ runs[id].pc = "done"
         /\ tasks[id].status = "completed"
         /\ Str(MidiOut(id)) \in fs) =>
            /\ get_artifact_path(tasks, fs, id, "midi").err = "ok"
            /\ download_artifact(tasks, fs, id, "midi").status = 200

(* the state the code ends in: the run has returned, the job is completed,  *)
(* the MIDI file is on disk, and asking for it is answered 409              *)
C14_MidiLeftUnbound ==
    \E id \in DOMAIN runs :
        /\ runs[id].pc = "done"
        /\ tasks[id].status = "completed"
        /\ Str(MidiOut(id)) \in fs
        /\ "midi" \notin DOMAIN tasks[id].artifact_paths
        /\ get_artifact_path(tasks, fs, id, "midi").err = "ArtifactUnavailable"
        /\ download_artifact(tasks, fs, id, "midi").status = 409

----------------------------------------------------------------------------
(* C15: GET /tasks/{id}/download answers 400 for a file_type other than     *)
(* audio or midi, whatever the task id; 404 for an unknown or malformed id  *)
(* and for a bound file that is missing on disk; 409 for a task that is not *)
(* completed and for a kind that is not bound; and 200 with the bound file  *)
(* in the remaining case only.  GET /tasks/{id} answers 404 exactly for     *)
(* the unknown and the malformed ids, and 200 otherwise.                    *)
AnyFileType == FileType \cup {"xxx", "AUDIO", ""}

C15_DownloadStatus ==
    \A id \in IdArgs :
        /\ get_task_status(tasks, id).status = IF id \in DOMAIN tasks THEN 200 ELSE 404
        /\ \A ft \in AnyFileType :
               LET d == download_artifact(tasks, fs, id, ft) IN
               IF ft \notin {"audio", "midi"} THEN d.status = 400
               ELSE IF id \notin DOMAIN tasks THEN d.status = 404
               ELSE IF tasks[id].status # "completed" THEN d.status = 409
               ELSE IF ft \notin DOMAIN tasks[id].artifact_paths THEN d.status = 409
               ELSE IF tasks[id].artifact_paths[ft] \notin fs THEN d.status = 404
               ELSE /\ d.status = 200
                    /\ d.path = tasks[id].artifact_paths[ft]
                    /\ d.path \in fs

(* one completed job whose bound audio file has gone from disk (404), and   *)
(* another whose midi is served (200) and whose audio is not bound (409)    *)
C15_Witness ==
    \E a, b \in DOMAIN tasks :
        /\ a # b
        /\ tasks[a].status = "completed"
        /\ "audio" \in DOMAIN tasks[a].artifact_paths
        /\ download_artifact(tasks, fs, a, "audio").status = 404
        /\ download_artifact(tasks, fs, b, "midi").status = 200
        /\ download_artifact(tasks, fs, b, "audio").status = 409
        /\ download_artifact(tasks, fs, Malformed, "xxx").status = 400

----------------------------------------------------------------------------
(* C16: a POST /generate with a named, non-empty upload within the size     *)
(* limit creates exactly one job, answers 202 with status queued and that   *)
(* job's id, and schedules exactly one process_task run for it; the run is  *)
(* scheduled, and so starts, only when the whole upload is in the file at   *)
(* the job's own upload path.                                                *)
AcceptedSizes == {1, ChunkSize, Limit - 1, Limit}

(* the answer to every such request in the current state *)
GenerateAccepts ==
    issued < Len(Uuid4Seq) =>
        \A size \in AcceptedSizes, fmt \in RouteFormats :
            LET id == uuid4(issued)
                r == generate_music(tasks, fs, issued, "hum.wav", size, fmt, now)
            IN /\ r.status = 202
               /\ r.body.task_id = id
               /\ r.body.status = "queued"
               /\ r.drawn = 1
               /\ id \notin DOMAIN tasks
               /\ DOMAIN r.tasks = DOMAIN tasks \cup {id}
               /\ \A old \in DOMAIN tasks : r.tasks[old] = tasks[old]
               /\ r.tasks[id].status = "queued"
               /\ r.scheduled = Frame(InputPath(id), fmt)
               /\ save_upload_file(size) =
                      [status |-> 200, total |-> size, written |-> size, on_disk |-> TRUE]
               /\ r.fs = fs \cup {Str(InputPath(id))}

(* a step that schedules a run schedules one, for the job just created, at  *)
(* its entry, with the upload on disk; and no run goes back to its entry    *)
ScheduledOnceAfterUpload ==
    \A id \in UUIDs :
        /\ (id \notin DOMAIN runs /\ id \in DOMAIN runs') =>
               /\ DOMAIN runs' = DOMAIN runs \cup {id}
               /\ id \notin DOMAIN tasks
               /\ DOMAIN tasks' = DOMAIN tasks \cup {id}
               /\ tasks'[id].status = "queued"
               /\ runs'[id].pc = "start"
               /\ runs'[id].input_path = InputPath(id)
               /\ calls'[id] = << >>
               /\ Str(InputPath(id)) \in fs'
        /\ id \in DOMAIN runs =>
               /\ id \in DOMAIN runs'
               /\ runs[id].pc # "start" => runs'[id].pc # "start"

C16_GenerateSchedulesOneRun ==
    /\ []GenerateAccepts
    /\ [][ScheduledOnceAfterUpload]_vars

(* a job just accepted: queued, its upload on disk, its run not yet started, *)
(* next to a job whose run has started                                       *)
C16_Witness ==
    \E a, b \in DOMAIN runs :
        /\ runs[a].pc = "start"
        /\ tasks[a].status = "queued"
        /\ calls[a] = << >>
        /\ Str(InputPath(a)) \in fs
        /\ runs[b].pc = "progress_01"
        /\ tasks[b].status = "running"

----------------------------------------------------------------------------
(* C17: while the upload is read chunk by chunk, a cumulative byte count    *)
(* equal to the ceiling is accepted and written in full, and the first      *)
(* chunk that takes the count over the ceiling fails the request with 413   *)
(* and leaves no partial upload file on disk.                                *)
AnyUploadSize ==
    {0, 1, ChunkSize, Limit - 1, Limit, Limit + 1, Limit + ChunkSize, Limit + ChunkSize + 1}

C17_UploadCeiling ==
    /\ \A size \in AnyUploadSize :
           LET s == save_upload_file(size) IN
           IF size <= Limit
           THEN s = [status |-> 200, total |-> size, written |-> size, on_disk |-> TRUE]
           ELSE /\ s.status = 413
                /\ ~s.on_disk
                /\ s.total > Limit
                /\ s.written <= Limit
                /\ s.total - s.written <= ChunkSize
    /\ issued < Len(Uuid4Seq) =>
           \A size \in AnyUploadSize, fmt \in RouteFormats :
               LET r == generate_music(tasks, fs, issued, "hum.wav", size, fmt, now) IN
               /\ size > Limit =>
                      /\ r.status = 413
                      /\ r.scheduled = None
                      /\ Str(InputPath(uuid4(issued))) \notin r.fs
               /\ size = Limit =>
                      /\ r.status = 202
                      /\ Str(InputPath(uuid4(issued))) \in r.fs
    /\ \A id \in DOMAIN tasks :
           (tasks[id].error # None /\ tasks[id].error.message = "Upload rejected") =>
               /\ Str(InputPath(id)) \notin fs
               /\ id \notin DOMAIN runs

(* an upload one byte over the ceiling has been refused and has left no     *)
(* file, and an upload of exactly the ceiling has been accepted and is on   *)
(* disk                                                                      *)
C17_Witness ==
    \E a, b \in DOMAIN tasks :
        /\ tasks[a].status = "failed"
        /\ tasks[a].error.message = "Upload rejected"
        /\ Str(InputPath(a)) \notin fs
        /\ a \notin DOMAIN runs
        /\ b \in DOMAIN runs
        /\ runs[b].pc = "start"
        /\ Str(InputPath(b)) \in fs
        /\ save_upload_file(Limit).written = Limit
        /\ save_upload_file(Limit + 1).status = 413

----------------------------------------------------------------------------
(* C18: after PUT /tasks/{id}/score with a valid score on a completed job,  *)
(* answered 200, the normalized score is in {output_dir}/{id}.score.json,   *)
(* the MIDI written from it is at {output_dir}/{id}.mid, the job's midi     *)
(* artifact is bound to that file, and GET /tasks/{id}/download with        *)
(* file_type=midi is answered 200.  The application does not serve the      *)
(* route: create_app() never includes the score router, and the request is  *)
(* answered 404 with nothing written and nothing bound.                     *)
C18_PutScoreBindsMidi ==
    \A id \in DOMAIN tasks :
        tasks[id].status = "completed" =>
            LET r == PutScoreRequest(id) IN
            /\ r.status = 200
            /\ Str(ScoreJson(id)) \in r.fs
            /\ Str(MidiOut(id)) \in r.fs
            /\ "midi" \in DOMAIN r.tasks[id].artifact_paths
            /\ r.tasks[id].artifact_paths["midi"] = Str(MidiOut(id))
            /\ download_artifact(r.tasks, r.fs, id, "midi").status = 200

----------------------------------------------------------------------------
(* C19: after POST /tasks/{id}/render on a completed job with a MIDI,       *)
(* answered 200, the audio artifact is bound to the newly synthesized file, *)
(* the next audio download is answered with that file and the content type *)
(* of the requested format, the job is still completed and its midi binding *)
(* is as it was.  The application does not serve the route either: the      *)
(* request is answered 404 and the audio binding stays as it was.           *)
C19_RenderRebindsAudio ==
    \A id \in DOMAIN tasks, fmt \in RouteFormats :
        (tasks[id].status = "completed" /\ get_latest_midi_path(tasks, fs, id) # NoneStr) =>
            LET r == RenderRequest(id, fmt, TRUE)
                new == Str(RenderOut(PathOf(get_latest_midi_path(tasks, fs, id)).stem, fmt))
                d == download_artifact(r.tasks, r.fs, id, "audio")
            IN /\ r.status = 200
               /\ new \in r.fs
               /\ r.tasks[id].artifact_paths["audio"] = new
               /\ d.status = 200
               /\ d.path = new
               /\ d.media_type = IF fmt = "mp3" THEN "audio/mpeg" ELSE "audio/wav"
               /\ r.tasks[id].status = "completed"
               /\ \A ft \in {"midi"} :
                      /\ ft \in DOMAIN tasks[id].artifact_paths
                             <=> ft \in DOMAIN r.tasks[id].artifact_paths
                      /\ ft \in DOMAIN tasks[id].artifact_paths
                             => r.tasks[id].artifact_paths[ft] = tasks[id].artifact_paths[ft]

----------------------------------------------------------------------------
(* C20: GET /tasks/{id}/score, PUT /tasks/{id}/score and                    *)
(* POST /tasks/{id}/render are answered 404 for an unknown task and 409 for *)
(* a task that is queued, running or failed, and in those cases no file is  *)
(* written and no artifact binding changes.  The application answers 404    *)
(* where the claim says 409: the routes are not registered.                 *)
ScoreRequests(id) ==
    {GetScoreRequest(id, p) : p \in BOOLEAN}
        \cup {PutScoreRequest(id)}
        \cup {RenderRequest(id, fmt, s) : fmt \in RouteFormats, s \in BOOLEAN}

C20_ScoreRoutesRefuse ==
    \A id \in IdArgs :
        \A r \in ScoreRequests(id) :
            /\ id \notin DOMAIN tasks => r = Answer(404, tasks, fs)
            /\ (id \in DOMAIN tasks /\ tasks[id].status # "completed")
                   => r = Answer(409, tasks, fs)

(* the state in which the claim fails: a running job, for which each of the *)
(* three requests is answered 404                                           *)
C20_RunningJobAnswered404 ==
    \E id \in DOMAIN tasks :
        /\ tasks[id].status = "running"
        /\ \A r \in ScoreRequests(id) : r.status = 404

----------------------------------------------------------------------------
(* C21: GET /tasks/{id}/score returns the cached score JSON when one exists *)
(* and otherwise derives the score from the job's current MIDI and caches   *)
(* it; so for a completed job with a MIDI the GET is answered 200 and       *)
(* leaves {output_dir}/{id}.score.json, a second GET is answered 200 from   *)
(* that file and writes nothing, and a GET after a PUT answered 200 is      *)
(* answered 200 from the file the PUT wrote, readable MIDI or not.  The     *)
(* application does not serve the route: create_app() never includes the    *)
(* score router, and each of these requests is answered 404.                *)
C21_GetScoreCaches ==
    \A id \in DOMAIN tasks :
        (tasks[id].status = "completed" /\ get_latest_midi_path(tasks, fs, id) # NoneStr) =>
            LET first == GetScoreRequest(id, TRUE)
                second == Dispatch("score", get_score(first.tasks, first.fs, id, FALSE),
                                   first.tasks, first.fs)
                put == PutScoreRequest(id)
                after == Dispatch("score", get_score(put.tasks, put.fs, id, FALSE),
                                  put.tasks, put.fs)
            IN /\ first.status = 200
               /\ Str(ScoreJson(id)) \in first.fs
               /\ second = Answer(200, first.tasks, first.fs)
               /\ put.status = 200
               /\ after = Answer(200, put.tasks, put.fs)

(* the state in which the claim fails: a completed job whose MIDI is on     *)
(* disk, for which GET /tasks/{id}/score is answered 404 and no score file  *)
(* is written                                                                *)
C21_CompletedJobAnswered404 ==
    \E id \in DOMAIN tasks :
        /\ tasks[id].status = "completed"
        /\ Str(MidiOut(id)) \in fs
        /\ GetScoreRequest(id, TRUE) = Answer(404, tasks, fs)
        /\ Str(ScoreJson(id)) \notin fs

----------------------------------------------------------------------------
(* C28: prune(max_age) removes exactly the jobs whose updated_at is older   *)
(* than now - max_age, whatever their status, returns how many it removed,  *)
(* leaves every other job as it was, and deletes no file from disk.         *)
AnyMaxAge == {0, 1, 2}

PruneRemovesTheOld ==
    \A max_age \in AnyMaxAge :
        LET r == prune(tasks, max_age, utcnow)
            old == {tid \in DOMAIN tasks : tasks[tid].updated_at < utcnow - max_age}
        IN /\ DOMAIN r.tasks = (DOMAIN tasks) \ old
           /\ r.removed = Cardinality(old)
           /\ \A tid \in DOMAIN r.tasks : r.tasks[tid] = tasks[tid]

(* a step that takes jobs out of the store is a prune of the old ones and   *)
(* leaves the disk alone                                                    *)
PruneStep ==
    (DOMAIN tasks) \ (DOMAIN tasks') # {} =>
        /\ fs' = fs
        /\ \E max_age \in AnyMaxAge : tasks' = prune(tasks, max_age, utcnow).tasks
        /\ \A tid \in DOMAIN tasks' : tid \in DOMAIN tasks /\ tasks'[tid] = tasks[tid]

C28_Prune ==
    /\ []PruneRemovesTheOld
    /\ [][PruneStep]_vars

(* one job has been pruned and a younger one kept, the artifact files of    *)
(* the store still on disk                                                  *)
C28_Witness ==
    /\ issued = 2
    /\ Cardinality(DOMAIN tasks) = 1
    /\ \A tid \in DOMAIN tasks : tasks[tid].updated_at = utcnow
    /\ prune(tasks, 0, utcnow).removed = 0
    /\ fs = InitFiles

----------------------------------------------------------------------------
(* C30: for two distinct jobs created through POST /generate, the upload    *)
(* path, the intermediate and output paths (cleaned audio, MIDI, audio,     *)
(* score JSON) and the canonical artifact paths are pairwise distinct; so   *)
(* every file on disk and every bound artifact belongs to one job, and a    *)
(* step taken for one job creates and removes files of that job only.       *)
PathsOf(tid) ==
    {Str(InputPath(tid)), Str(CleanWav(tid)), Str(MidiOut(tid)), Str(ScoreJson(tid))}
        \cup {Str(TempOut(tid, fmt)) : fmt \in RouteFormats}
        \cup {Str(RenderOut(tid, fmt)) : fmt \in RouteFormats}
        \cup {Str(FinalPath(tid, fmt)) : fmt \in RouteFormats}

NoSharedPath ==
    /\ \A a, b \in UUIDs : a # b => PathsOf(a) \cap PathsOf(b) = {}
    /\ \A f \in fs : \E a \in DOMAIN tasks : f \in PathsOf(a)
    /\ \A a \in DOMAIN tasks :
           \A ft \in DOMAIN tasks[a].artifact_paths :
               tasks[a].artifact_paths[ft] \in PathsOf(a)
    /\ \A a \in DOMAIN runs :
           /\ Str(runs[a].input_path) \in PathsOf(a)
           /\ runs[a].output_path # None => Str(runs[a].output_path) \in PathsOf(a)

(* the job a step is taken for: the only one whose record or run changes *)
StepFor(a) ==
    /\ \/ a \notin DOMAIN tasks
       \/ tasks'[a] # tasks[a]
       \/ a \in DOMAIN runs /\ runs'[a] # runs[a]
    /\ \A b \in (DOMAIN tasks) \ {a} : tasks'[b] = tasks[b]
    /\ \A b \in (DOMAIN runs) \ {a} : runs'[b] = runs[b]

OwnFilesOnly ==
    (fs' # fs /\ deleted' = deleted) =>
        \E a \in UUIDs :
            /\ StepFor(a)
            /\ (fs' \ fs) \cup (fs \ fs') \subseteq PathsOf(a)

C30_NoSharedPath ==
    /\ []NoSharedPath
    /\ [][OwnFilesOnly]_vars

(* two jobs side by side: the output of one is at its canonical path and    *)
(* bound, while the upload of the other is still on disk and its run going  *)
C30_Witness ==
    \E a, b \in DOMAIN tasks :
        /\ a # b
        /\ tasks[a].status = "completed"
        /\ tasks[a].artifact_paths["audio"] \in fs
        /\ Str(MidiOut(a)) \in fs
        /\ b \in DOMAIN runs
        /\ runs[b].pc = "move"
        /\ Str(InputPath(b)) \in fs
        /\ Str(runs[b].output_path) \in fs

----------------------------------------------------------------------------
(* The score functions applied to documents                                 *)
(*                                                                           *)
(* normalize_score and optimize_score are pure; the state is the document   *)
(* in hand, which starts as one a client may send and becomes what each     *)
(* call returns.                                                             *)

Ms == 1000000

(* track names a client sends: null, an integer, "", "A", "Lead" *)
NameArgs == {NoName, IntName(7), StrName(<< >>), StrName(<<65>>), StrName(<<76, 101, 97, 100>>)}

(* track ids a client sends: none, "t1" *)
TrackIdArgs == {NoId, <<116, 49>>}

(* note lists: one note; two notes out of order; the same note twice; a note
   shorter than half a microsecond; times between two microseconds; preset
   ids "b" and "a" on equal notes; two overlapping notes (those of
   test_optimize_safe_preserves_timing_order_no_quantize); a weak short note
   before a longer one; a chord given from the top; one preset id of two *)
NotesArgs ==
    {<<NoteEvent(NoId, 60, 0, 500 * Ms, 64)>>,
     <<NoteEvent(NoId, 62, 500 * Ms, 250 * Ms, 64), NoteEvent(NoId, 60, 0, 250 * Ms, 64)>>,
     <<NoteEvent(NoId, 60, 0, 250 * Ms, 64), NoteEvent(NoId, 60, 0, 250 * Ms, 64)>>,
     <<NoteEvent(NoId, 60, 0, 400, 64)>>,
     <<NoteEvent(NoId, 60, 1000400, 250000600, 64)>>,
     <<NoteEvent(<<98>>, 60, 0, 250 * Ms, 64), NoteEvent(<<97>>, 60, 0, 250 * Ms, 64)>>,
     <<NoteEvent(NoId, 60, 833333300, 100 * Ms, 60), NoteEvent(NoId, 62, 875 * Ms, 100 * Ms, 60)>>,
     <<NoteEvent(NoId, 60, 0, 50 * Ms, 20), NoteEvent(NoId, 62, 100 * Ms, 250 * Ms, 80)>>,
     <<NoteEvent(NoId, 64, 0, 250 * Ms, 80), NoteEvent(NoId, 60, 0, 250 * Ms, 80)>>,
     <<NoteEvent(<<97>>, 62, 250 * Ms, 250 * Ms, 64), NoteEvent(NoId, 60, 0, 250 * Ms, 64)>>,
     <<NoteEvent(NoId, 60, 0, 125 * Ms, 100), NoteEvent(NoId, 64, 0, 500 * Ms, 60)>>,
     <<NoteEvent(NoId, 45, 30 * Ms, 200 * Ms, 10), NoteEvent(NoId, 60, 30 * Ms, 500 * Ms, 30),
       NoteEvent(NoId, 60, 400 * Ms, 500 * Ms, 90)>>}

(* documents of one track, and documents of two tracks with one name *)
ScoreArgs ==
    {ScoreDoc(120, <<Track(id, name, 0, 0, notes)>>) :
        id \in TrackIdArgs, name \in NameArgs, notes \in NotesArgs}
    \cup {ScoreDoc(120, <<Track(NoId, name, NoneInt, NoneInt, notes),
                          Track(NoId, name, NoneInt, NoneInt, notes)>>) :
            name \in {NoName, StrName(<<65>>)}, notes \in NotesArgs}

(* the configurations optimize_score is called with *)
ConfigArgs == {DefaultConfig, CliSafeConfig, CliStrongConfig, CliStrongLevelled}

ScoreInit ==
    /\ tasks = << >>
    /\ issued = 0
    /\ fs = {}
    /\ now = 0
    /\ deleted = 0
    /\ runs = << >>
    /\ calls = << >>
    /\ doc \in ScoreArgs
    /\ midi = EmptyMidi
    /\ lock = NoneStr
    /\ threads = << >>
    /\ committed = << >>
    /\ cli = << >>

(* doc = normalize_score(doc); a call that raises leaves doc as it was *)
Normalize ==
    /\ doc' = IF normalize_score(doc).err = "ok" THEN normalize_score(doc).value ELSE doc
    /\ UNCHANGED <<tasks, issued, fs, now, deleted, runs, calls, midi, lockVars, cli>>

(* doc = optimize_score(doc, cfg) *)
Optimize ==
    \E cfg \in ConfigArgs :
        /\ doc' = IF optimize_score(doc, cfg).err = "ok"
                  THEN optimize_score(doc, cfg).value ELSE doc
        /\ UNCHANGED <<tasks, issued, fs, now, deleted, runs, calls, midi, lockVars, cli>>

ScoreNext ==
    \/ Normalize
    \/ Optimize

ScoreSpec == ScoreInit /\ [][ScoreNext]_vars

----------------------------------------------------------------------------
(* C22: normalize is idempotent: for every valid score x,                   *)
(* normalize(normalize(x)) equals normalize(x) field for field.  It fails   *)
(* for a note shorter than half a microsecond: the first call rounds its    *)
(* duration to 0.0 without validating it, and the second call's             *)
(* model_validate raises for a duration that is not above 0.                *)
HasPrefix(s, p) == Len(s) >= Len(p) /\ SubSeq(s, 1, Len(p)) = p

C22_NormalizeIdempotent ==
    normalize_score(doc).err = "ok" =>
        normalize_score(normalize_score(doc).value) = normalize_score(doc)

(* the state in which the claim fails: the document normalize_score has     *)
(* returned holds a note of duration 0 and is no longer valid               *)
C22_NormalizedIsInvalid ==
    /\ \E ti \in DOMAIN doc.tracks :
           /\ doc.tracks[ti].id # NoId
           /\ \E ni \in DOMAIN doc.tracks[ti].notes :
                  /\ doc.tracks[ti].notes[ni].duration = 0
                  /\ HasPrefix(doc.tracks[ti].notes[ni].id, NoteIdPrefix)
    /\ normalize_score(doc).err = "ValidationError"

----------------------------------------------------------------------------
(* C23: after normalization of any valid score every track and every note   *)
(* carries an id, and each track's notes are in non-decreasing order of the *)
(* key (start, pitch, duration, velocity, id).                              *)
KeyAtMost(m, n) ==
    \/ m.start < n.start
    \/ /\ m.start = n.start
       /\ \/ m.pitch < n.pitch
          \/ /\ m.pitch = n.pitch
             /\ \/ m.duration < n.duration
                \/ /\ m.duration = n.duration
                   /\ \/ m.velocity < n.velocity
                      \/ /\ m.velocity = n.velocity
                         /\ (m.id = n.id \/ StrLess(m.id, n.id))

IdsAndOrder(d) ==
    \A ti \in DOMAIN d.tracks :
        LET tr == d.tracks[ti] IN
        /\ tr.id # NoId
        /\ \A ni \in DOMAIN tr.notes : tr.notes[ni].id # NoId
        /\ \A ni \in 1..(Len(tr.notes) - 1) : KeyAtMost(tr.notes[ni], tr.notes[ni + 1])

C23_IdsAndOrder ==
    normalize_score(doc).err = "ok" => IdsAndOrder(normalize_score(doc).value)

(* normalize_score has returned the document in hand from one whose two     *)
(* notes came out of order and without ids                                  *)
C23_Witness ==
    /\ \E d \in ScoreArgs :
           /\ Len(d.tracks) = 1
           /\ Len(d.tracks[1].notes) = 2
           /\ d.tracks[1].id = NoId
           /\ \A ni \in 1..2 : d.tracks[1].notes[ni].id = NoId
           /\ ~KeyAtMost(d.tracks[1].notes[1], d.tracks[1].notes[2])
           /\ doc = normalize_score(d).value
    /\ IdsAndOrder(doc)

----------------------------------------------------------------------------
(* C24: after normalization of any valid score, with track names given as a *)
(* string of any length, an integer or null, every track's name is a        *)
(* non-empty string.  The name "" is a string of length 0 and str("") is    *)
(* "": the fallback Track<index> is taken for null alone.                   *)
C24_NamesNonEmpty ==
    normalize_score(doc).err = "ok" =>
        \A ti \in DOMAIN normalize_score(doc).value.tracks :
            LET name == normalize_score(doc).value.tracks[ti].name IN
            /\ name.kind = "str"
            /\ name.value # << >>

(* the state in which the claim fails: a normalized document, its track and *)
(* notes holding the ids normalize_score assigns, whose track name is ""    *)
C24_NormalizedNameEmpty ==
    \E ti \in DOMAIN doc.tracks :
        /\ doc.tracks[ti].name = StrName(<< >>)
        /\ HasPrefix(doc.tracks[ti].id, TrackIdPrefix)
        /\ normalize_score(doc).value = doc

----------------------------------------------------------------------------
(* C25: ids assigned by normalize are stable across renames (two scores     *)
(* without preset ids that differ in one track's name get the same track id *)
(* and the same note ids), and changing a note's pitch, start or duration   *)
(* changes the id assigned to that note.  The name is part of the string    *)
(* the track id is the hash of, and the track id part of the string each    *)
(* note id is the hash of: a rename changes them all.                       *)
NoPresetIds(d) ==
    \A ti \in DOMAIN d.tracks :
        /\ d.tracks[ti].id = NoId
        /\ \A ni \in DOMAIN d.tracks[ti].notes : d.tracks[ti].notes[ni].id = NoId

Renamed(d, ti, name) == [d EXCEPT !.tracks[ti].name = name]

(* the ids of track ti in the order the notes were given: notes without     *)
(* preset ids are told apart by their position before the sort              *)
AssignedIds(d, ti) ==
    LET tr == [d.tracks[ti] EXCEPT !.name = CoerceName(@, ti - 1)]
        rounded == [tr EXCEPT !.notes = [i \in DOMAIN tr.notes |-> RoundNote(tr.notes[i])]]
        with_ids == EnsureNoteIds(EnsureTrackId(ti - 1, rounded))
    IN [track |-> with_ids.id, notes |-> [i \in DOMAIN with_ids.notes |-> with_ids.notes[i].id]]

(* the edits of one note: a semitone up, a millisecond later, a millisecond longer *)
NoteEdits(ne) ==
    {[ne EXCEPT !.pitch = @ + 1], [ne EXCEPT !.start = @ + Ms], [ne EXCEPT !.duration = @ + Ms]}

EditsChangeNoteId ==
    (NoPresetIds(doc) /\ ScoreDocValid(doc)) =>
        \A ti \in DOMAIN doc.tracks :
            \A ni \in DOMAIN doc.tracks[ti].notes :
                \A e \in NoteEdits(doc.tracks[ti].notes[ni]) :
                    AssignedIds([doc EXCEPT !.tracks[ti].notes[ni] = e], ti).notes[ni]
                        # AssignedIds(doc, ti).notes[ni]

RenameKeepsIds ==
    (NoPresetIds(doc) /\ ScoreDocValid(doc)) =>
        \A ti \in DOMAIN doc.tracks :
            \A name \in NameArgs :
                AssignedIds(Renamed(doc, ti, name), ti) = AssignedIds(doc, ti)

C25_IdsStableAcrossRenames ==
    /\ RenameKeepsIds
    /\ EditsChangeNoteId

(* the state in which the claim fails: the document normalize_score has     *)
(* returned for a track named "A", whose track id is not the one the same   *)
(* track gets under the name "Lead"                                         *)
C25_RenameChangedIds ==
    \E d \in ScoreArgs :
        /\ NoPresetIds(d)
        /\ Len(d.tracks) = 1
        /\ d.tracks[1].name = StrName(<<65>>)
        /\ doc = normalize_score(d).value
        /\ normalize_score(Renamed(d, 1, StrName(<<76, 101, 97, 100>>))).value.tracks[1].id
               # doc.tracks[1].id

----------------------------------------------------------------------------
(* C26: optimizing any valid score with the default configuration returns,  *)
(* for each track, exactly as many notes as the input, each with its        *)
(* original start, duration, pitch and velocity, in the (start, pitch)      *)
(* order of the input.  OptimizeConfig() sets every velocity to 80, drops   *)
(* a note shorter than 0.06 s and weaker than 30, and makes each track      *)
(* monophonic, shortening or dropping notes that overlap.                   *)
Content(ne) == <<ne.pitch, ne.start, ne.duration, ne.velocity>>

NotesKept(in, out) ==
    /\ Len(out.tracks) = Len(in.tracks)
    /\ \A ti \in DOMAIN in.tracks :
           LET given == Sorted(in.tracks[ti].notes, ByStartPitch)
               got == out.tracks[ti].notes
           IN /\ Len(got) = Len(given)
              /\ \A ni \in DOMAIN given : Content(got[ni]) = Content(given[ni])

C26_DefaultKeepsNotes ==
    optimize_score(doc, DefaultConfig).err = "ok" =>
        NotesKept(doc, optimize_score(doc, DefaultConfig).value)

(* the configuration of "score optimize --preset safe" does keep the notes *)
CliSafeKeepsNotes ==
    optimize_score(doc, CliSafeConfig).err = "ok" =>
        NotesKept(doc, optimize_score(doc, CliSafeConfig).value)

(* the state in which the claim fails: the document optimize_score has      *)
(* returned under OptimizeConfig() for the two overlapping notes of         *)
(* velocity 60: both are kept, both at velocity 80, the first shortened     *)
C26_DefaultRetimed ==
    \E d \in ScoreArgs :
        /\ Len(d.tracks) = 1
        /\ Len(d.tracks[1].notes) = 2
        /\ \A ni \in 1..2 : d.tracks[1].notes[ni].velocity = 60
        /\ doc = optimize_score(d, DefaultConfig).value
        /\ Len(doc.tracks[1].notes) = 2
        /\ \A ni \in 1..2 : doc.tracks[1].notes[ni].velocity = 80
        /\ doc.tracks[1].notes[1].duration < d.tracks[1].notes[1].duration

----------------------------------------------------------------------------
(* MIDI files read into scores and scores written to MIDI files *)

(* the message that ends a note: a note_off, or a note_on of velocity 0 *)
OffKinds == {"note_off", "note_on"}
Off(kind, time, channel, note) == Message(kind, time, channel, note, 0)

(* the ticks before the first note, and between two notes *)
LeadArgs == {0, 250, 500}
GapArgs == {0, 250}

(* one note; two notes one after the other; two notes of which the second   *)
(* begins while the first sounds (on the same pitch when p = 60); a note    *)
(* ended at the tick it began, then a second note                           *)
MidiTrackArgs ==
    {<<Message("note_on", lead, 0, 60, 64), Off(k, 250, 0, 60)>> :
        lead \in LeadArgs, k \in OffKinds}
    \cup {<<Message("note_on", lead, 0, 60, 64), Off(k, 250, 0, 60),
            Message("note_on", gap, 0, p, 80), Off(k, 250, 0, p)>> :
            lead \in LeadArgs, gap \in GapArgs, p \in {60, 62}, k \in OffKinds}
    \cup {<<Message("note_on", lead, 0, 60, 64), Message("note_on", 125, 0, p, 80),
            Off(k, 125, 0, 60), Off(k, 125 + gap, 0, p)>> :
            lead \in LeadArgs, gap \in GapArgs, p \in {60, 62}, k \in OffKinds}
    \cup {<<Message("note_on", lead, 0, 60, 64), Off(k, 0, 0, 60),
            Message("note_on", gap, 0, p, 80), Off(k, 250, 0, p)>> :
            lead \in LeadArgs, gap \in GapArgs, p \in {60, 62}, k \in OffKinds}

(* files of one track, and files with a second track on channel 1 *)
MidiArgs ==
    {MidiFile(<<tr>>) : tr \in MidiTrackArgs}
    \cup {MidiFile(<<tr, <<Message("note_on", lead, 1, 67, 64), Off("note_off", 250, 1, 67)>>>>) :
            tr \in {t \in MidiTrackArgs : Len(t) = 2}, lead \in LeadArgs}

MidiInit ==
    /\ tasks = << >>
    /\ issued = 0
    /\ fs = {}
    /\ now = 0
    /\ deleted = 0
    /\ runs = << >>
    /\ calls = << >>
    /\ doc = EmptyScore
    /\ midi \in MidiArgs
    /\ lock = NoneStr
    /\ threads = << >>
    /\ committed = << >>
    /\ cli = << >>

(* doc = midi_to_score(midi) *)
MidiToScore ==
    /\ doc' = midi_to_score(midi)
    /\ UNCHANGED <<tasks, issued, fs, now, deleted, runs, calls, midi, lockVars, cli>>

(* midi = score_to_midi(doc) *)
ScoreToMidi ==
    /\ midi' = score_to_midi(doc)
    /\ UNCHANGED <<tasks, issued, fs, now, deleted, runs, calls, doc, lockVars, cli>>

MidiNext ==
    \/ MidiToScore
    \/ ScoreToMidi

MidiSpec == MidiInit /\ [][MidiNext]_vars

----------------------------------------------------------------------------
(* C27: for every MIDI file m that holds note-on and note-off events only,  *)
(* under a single tempo, converting m to a score and back to MIDI preserves *)
(* the multiset of (pitch, start rounded to 3 decimals, duration rounded to *)
(* 3 decimals).  midi_to_score moves the earliest note to 0, keeps one note *)
(* of two that overlap on a pitch and leaves out a note ended at the tick   *)
(* it began: the score holds nothing from which the file could be restored. *)

(* round(x, 3), in milliseconds *)
Round3(ns) == (ns + (Ms \div 2)) \div Ms

(* the notes of one track: a note ends at the first message after its       *)
(* note-on that ends its channel and pitch, notes of one pitch ending in    *)
(* the order they began                                                     *)
RECURSIVE TrackNotes(_, _, _, _, _, _)
TrackNotes(m, msgs, i, abs_tick, pending, found) ==
    IF i > Len(msgs) THEN found
    ELSE LET msg == msgs[i]
             at == abs_tick + msg.time
             same == {j \in DOMAIN pending :
                         pending[j].channel = msg.channel /\ pending[j].note = msg.note}
             first == CHOOSE j \in same : \A k \in same : j <= k
         IN IF IsNoteOn(msg)
            THEN TrackNotes(m, msgs, i + 1, at,
                     Append(pending, [channel |-> msg.channel, note |-> msg.note, tick |-> at]),
                     found)
            ELSE IF IsNoteOff(msg) /\ same # {}
            THEN TrackNotes(m, msgs, i + 1, at,
                     SubSeq(pending, 1, first - 1) \o SubSeq(pending, first + 1, Len(pending)),
                     Append(found,
                            <<msg.note,
                              Round3(tick_to_seconds(m, pending[first].tick)),
                              Round3(tick_to_seconds(m, at) - tick_to_seconds(m, pending[first].tick))>>))
            ELSE TrackNotes(m, msgs, i + 1, at, pending, found)

RECURSIVE MidiNotesFrom(_, _)
MidiNotesFrom(m, t) ==
    IF t > Len(m.tracks) THEN << >>
    ELSE TrackNotes(m, m.tracks[t], 1, 0, << >>, << >>) \o MidiNotesFrom(m, t + 1)

MidiNotes(m) == MidiNotesFrom(m, 1)

Count(s, x) == Cardinality({i \in DOMAIN s : s[i] = x})

SameBag(a, b) ==
    /\ Len(a) = Len(b)
    /\ \A i \in DOMAIN a : Count(a, a[i]) = Count(b, a[i])

RoundTrip(m) == score_to_midi(midi_to_score(m))

C27_RoundTripKeepsNotes ==
    SameBag(MidiNotes(RoundTrip(midi)), MidiNotes(midi))

(* a file whose first note begins at tick 0, in which no note begins on a   *)
(* pitch that sounds and every note lasts a tick or more, does come back    *)
(* with the notes it had                                                    *)
Plain(m) ==
    /\ \E i \in DOMAIN MidiNotes(m) : MidiNotes(m)[i][2] = 0
    /\ \A i \in DOMAIN MidiNotes(m) : MidiNotes(m)[i][3] > 0
    /\ \A i, j \in DOMAIN MidiNotes(m) :
           LET a == MidiNotes(m)[i]
               b == MidiNotes(m)[j]
           IN (i # j /\ a[1] = b[1]) => (a[2] + a[3] <= b[2] \/ b[2] + b[3] <= a[2])

PlainFilesRoundTrip ==
    Plain(midi) => SameBag(MidiNotes(RoundTrip(midi)), MidiNotes(midi))

(* the state in which the claim fails: the file written from the score of a *)
(* file whose only note began a quarter of a second in; the note now begins *)
(* at 0                                                                      *)
C27_LeadingSilenceLost ==
    \E m \in MidiArgs :
        /\ MidiNotes(m) = <<<<60, 250, 250>>>>
        /\ doc = midi_to_score(m)
        /\ midi = score_to_midi(doc)
        /\ MidiNotes(midi) = <<<<60, 0, 250>>>>

(* and the one in which a note is lost: two notes of pitch 60, the second   *)
(* begun while the first sounded, come back as one                          *)
C27_RetriggeredNoteLost ==
    \E m \in MidiArgs :
        /\ Len(MidiNotes(m)) = 2
        /\ MidiNotes(m)[1][2] = 0
        /\ MidiNotes(m)[1][3] > 0
        /\ MidiNotes(m)[2][3] > 0
        /\ doc = midi_to_score(m)
        /\ midi = score_to_midi(doc)
        /\ Len(MidiNotes(midi)) = 1

----------------------------------------------------------------------------
(* The Job Store called from several threads                                *)
(*                                                                           *)
(* process_task runs in worker threads and GET /tasks/{id} in the threads   *)
(* of the server.  A store method is taken in steps: the call, the entry    *)
(* into "with self._lock", one step for each assignment to the record, in   *)
(* the order of the source, and the exit from the block.                    *)

Threads == {"worker-1", "worker-2", "reader"}
Workers == {"worker-1", "worker-2"}

(* the one job the threads work on *)
LockJob == uuid4(0)

MethodCall(op, stage, progress) == [op |-> op, stage |-> stage, progress |-> progress]
NoCall == MethodCall(NoneStr, NoneStr, 0)

(* the calls of a worker, and the call of the reader *)
MutatorCalls ==
    {MethodCall("mark_running", "converting", 0),
     MethodCall("update_progress", NoneStr, 4),
     MethodCall("update_progress", "synthesizing", 8),
     MethodCall("mark_completed", NoneStr, 0),
     MethodCall("mark_failed", NoneStr, 0)}

CallsOf(t) == IF t \in Workers THEN MutatorCalls ELSE {MethodCall("get_task_info", NoneStr, 0)}

(* the method as a whole: what it raises, and the store it leaves *)
Outcome(call, t, disk, at) ==
    CASE call.op = "mark_running" -> mark_running(t, LockJob, call.stage, at)
      [] call.op = "update_progress" ->
             update_progress(t, LockJob, call.progress, call.stage, at)
      [] call.op = "mark_completed" ->
             mark_completed(t, disk, LockJob, TakeWav, "audio", NoneStr, NoneStr, at)
      [] call.op = "mark_failed" -> mark_failed(t, LockJob, "boom", NoneStr, call.stage, at)

(* the fields of the record in the order the method assigns them *)
Assignments(op) ==
    CASE op = "mark_running" -> <<"status", "stage", "updated_at">>
      [] op = "update_progress" -> <<"status", "progress", "stage", "updated_at">>
      [] op = "mark_completed" ->
             <<"status", "progress", "stage", "result", "error", "artifact_paths", "updated_at">>
      [] op = "mark_failed" -> <<"status", "stage", "result", "error", "updated_at">>

(* mutant: the reader does not take the lock *)
NeedsLock_writers_only(op) == op # "get_task_info"

(* mutant: only the reader takes the lock *)
NeedsLock_reader_only(op) == op = "get_task_info"

(* the methods whose body is inside "with self._lock" *)
NeedsLock(op) == op \in {"mark_running", "update_progress", "mark_completed", "mark_failed",
                         "get_task_info"}

ThreadFrame(pc, call, k, post, answer) ==
    [pc |-> pc, call |-> call, k |-> k, post |-> post, answer |-> answer]
Idle == ThreadFrame("idle", NoCall, 0, None, None)

(* the calls that finalize a job; calls[LockJob] lists those of them that   *)
(* passed the check of the status, in the order they passed it              *)
Finalizing == {"mark_completed", "mark_failed"}

(* what a mutator has raised, or "ok" *)
Raises(err) == [err |-> err, value |-> None]

LockInit ==
    /\ tasks = create_task(<< >>, LockJob, "preprocessing", 0)
    /\ issued = 1
    /\ fs = InitFiles
    /\ now = 0
    /\ deleted = 0
    /\ runs = << >>
    /\ calls = Put(<< >>, LockJob, << >>)
    /\ doc = EmptyScore
    /\ midi = EmptyMidi
    /\ lock = NoneStr
    /\ threads = [t \in Threads |-> Idle]
    /\ committed = create_task(<< >>, LockJob, "preprocessing", 0)
    /\ cli = << >>

(* a thread calls a method *)
CallMethod(t) ==
    /\ threads[t].pc = "idle"
    /\ \E call \in CallsOf(t) :
           threads' = [threads EXCEPT ![t] = ThreadFrame("acquire", call, 0, None, None)]
    /\ UNCHANGED <<tasks, issued, fs, now, deleted, runs, calls, scoreVars, lock, committed, cli>>

(* with self._lock: the thread waits until the lock is free.  A mutator     *)
(* then looks the record up and checks that it is not final; when the       *)
(* check raises the block is left with nothing assigned                     *)
Acquire(t) ==
    LET call == threads[t].call
        r == Outcome(call, tasks, fs, utcnow)
    IN /\ threads[t].pc = "acquire"
       /\ NeedsLock(call.op) => lock = NoneStr
       /\ lock' = IF NeedsLock(call.op) THEN t ELSE lock
       /\ threads' = [threads EXCEPT ![t] =
              IF call.op = "get_task_info" THEN [@ EXCEPT !.pc = "read"]
              ELSE IF r.err # "ok" THEN [@ EXCEPT !.pc = "release", !.answer = Raises(r.err)]
              ELSE [@ EXCEPT !.pc = "write", !.k = 1, !.post = r.tasks[LockJob],
                             !.answer = Raises("ok")]]
       /\ calls' = IF call.op \in Finalizing /\ r.err = "ok"
                   THEN [calls EXCEPT ![LockJob] = Append(@, Call(call.op, r))]
                   ELSE calls
       /\ UNCHANGED <<tasks, issued, fs, now, deleted, runs, scoreVars, committed, cli>>

(* rec.<field> = ...: the next assignment of the method *)
Write(t) ==
    LET f == Assignments(threads[t].call.op)[threads[t].k] IN
    /\ threads[t].pc = "write"
    /\ tasks' = [tasks EXCEPT ![LockJob][f] = threads[t].post[f]]
    /\ threads' = [threads EXCEPT ![t] =
           IF threads[t].k = Len(Assignments(threads[t].call.op))
           THEN [@ EXCEPT !.pc = "release"]
           ELSE [@ EXCEPT !.k = @ + 1]]
    /\ UNCHANGED <<issued, fs, now, deleted, runs, calls, scoreVars, lock, committed, cli>>

(* get_task_info: the TaskInfoResponse built from the record as it is *)
Read(t) ==
    /\ threads[t].pc = "read"
    /\ threads' = [threads EXCEPT ![t] =
           [@ EXCEPT !.pc = "release", !.answer = get_task_info(tasks, LockJob)]]
    /\ UNCHANGED <<tasks, issued, fs, now, deleted, runs, calls, scoreVars, lock, committed, cli>>

(* the end of the with block; the method returns *)
Release(t) ==
    /\ threads[t].pc = "release"
    /\ lock' = IF NeedsLock(threads[t].call.op) THEN NoneStr ELSE lock
    /\ committed' = IF threads[t].call.op = "get_task_info" THEN committed ELSE tasks
    /\ threads' = [threads EXCEPT ![t] = Idle]
    /\ UNCHANGED <<tasks, issued, fs, now, deleted, runs, calls, scoreVars, cli>>

Calling == \E t \in Threads : CallMethod(t)
Acquiring == \E t \in Threads : Acquire(t)
Writing == \E t \in Threads : Write(t)
Reading == \E t \in Threads : Read(t)
Releasing == \E t \in Threads : Release(t)

LockNext ==
    \/ Calling
    \/ Acquiring
    \/ Writing
    \/ Reading
    \/ Releasing

LockSpec == LockInit /\ [][LockNext]_vars

----------------------------------------------------------------------------
(* C29: with store mutations running concurrently in worker threads, every  *)
(* get_task_info snapshot of a job equals the job's state either before or  *)
(* after each concurrent transition, never a mixture (status completed with *)
(* result still null, a new status with the old progress): it is a valid    *)
(* TaskInfoResponse, and it is the one of the store as it was before the    *)
(* transition in progress, or of the store as that transition leaves it.    *)

(* the store as the transition in progress, if there is one, leaves it *)
AfterTransition ==
    IF \E w \in Workers : threads[w].pc = "write"
    THEN LET w == CHOOSE v \in Workers : threads[v].pc = "write"
         IN [tasks EXCEPT ![LockJob] = threads[w].post]
    ELSE tasks

C29_SnapshotsConsistent ==
    \A t \in Threads :
        (threads[t].call.op = "get_task_info" /\ threads[t].pc = "release") =>
            /\ threads[t].answer.err = "ok"
            /\ TaskInfoResponseValid(threads[t].answer.value)
            /\ \/ threads[t].answer = get_task_info(committed, LockJob)
               \/ threads[t].answer = get_task_info(AfterTransition, LockJob)

(* a snapshot taken between transitions: the job is running at 0.4, the     *)
(* reader holds the lock, and two workers wait for it, one to complete the  *)
(* job and one to fail it                                                   *)
C29_Witness ==
    /\ threads["reader"].pc = "release"
    /\ lock = "reader"
    /\ threads["reader"].answer.err = "ok"
    /\ threads["reader"].answer.value.status = "running"
    /\ threads["reader"].answer.value.progress = 4
    /\ threads["worker-1"].pc = "acquire"
    /\ threads["worker-1"].call.op = "mark_completed"
    /\ threads["worker-2"].pc = "acquire"
    /\ threads["worker-2"].call.op = "mark_failed"

(* a transition in progress while the reader waits: mark_completed has set  *)
(* the status and not yet the result, and the reader is kept out            *)
C29_ReaderKeptOut ==
    /\ \E w \in Workers :
           /\ threads[w].pc = "write"
           /\ threads[w].call.op = "mark_completed"
           /\ lock = w
    /\ tasks[LockJob].status = "completed"
    /\ tasks[LockJob].result = None
    /\ threads["reader"].pc = "acquire"

----------------------------------------------------------------------------
(* C38: in every reachable state of the Job Store a job's artifact map is   *)
(* non-empty only if the job is completed, and a completed job has the      *)
(* artifact of its result.file_type bound, to a path that is not empty.     *)
C38_ArtifactsFollowCompletion ==
    \A id \in DOMAIN tasks :
        /\ DOMAIN tasks[id].artifact_paths # {} => tasks[id].status = "completed"
        /\ tasks[id].status = "completed" =>
               /\ tasks[id].result.file_type \in DOMAIN tasks[id].artifact_paths
               /\ tasks[id].artifact_paths[tasks[id].result.file_type] # ""

(* a job completed as midi with its audio attached afterwards holds both    *)
(* bindings, next to a failed job that holds none                           *)
C38_Witness ==
    \E a, b \in DOMAIN tasks :
        /\ tasks[a].status = "completed"
        /\ tasks[a].result.file_type = "midi"
        /\ DOMAIN tasks[a].artifact_paths = {"midi", "audio"}
        /\ tasks[b].status = "failed"
        /\ DOMAIN tasks[b].artifact_paths = {}

----------------------------------------------------------------------------
(* C35: with make_monophonic enabled every optimized track is monophonic:   *)
(* of any two notes of the output track the one that starts later starts    *)
(* no earlier than the other ends (within eps), also when the grid          *)
(* quantization is enabled and applied again after the reduction.           *)
Monophonic(track, eps) ==
    \A i, j \in DOMAIN track.notes :
        (i # j /\ track.notes[j].start >= track.notes[i].start) =>
            track.notes[j].start >= track.notes[i].start + track.notes[i].duration - eps

MonophonicUnder(cfg) ==
    optimize_score(doc, cfg).err = "ok" =>
        \A t \in DOMAIN optimize_score(doc, cfg).value.tracks :
            Monophonic(optimize_score(doc, cfg).value.tracks[t], cfg.eps)

C35_MonophonicOutput ==
    \A cfg \in ConfigArgs : cfg.make_monophonic => MonophonicUnder(cfg)

(* the part of C35 that holds: without the grid, and on the grid when the   *)
(* velocities have been levelled                                            *)
C35_MonophonicOffGrid == MonophonicUnder(DefaultConfig) /\ MonophonicUnder(CliStrongLevelled)

(* what the code does under --preset strong: the louder short note and the  *)
(* longer note that begin together both come back, the short one one grid   *)
(* step long                                                                *)
C35_ChordOnGrid ==
    /\ Len(doc.tracks) = 1
    /\ Len(doc.tracks[1].notes) = 2
    /\ doc.tracks[1].notes[1].start = 0
    /\ doc.tracks[1].notes[2].start = 0
    /\ doc.tracks[1].notes[1].duration = step_seconds(doc.tempo_bpm, 4)
    /\ doc.tracks[1].notes[2].duration = 4 * step_seconds(doc.tempo_bpm, 4)
    /\ doc.tracks[1].notes[1].velocity = 100
    /\ \E d \in ScoreArgs : doc = optimize_score(d, CliStrongConfig).value

----------------------------------------------------------------------------
(* midi_to_score on files that set the tempo: a conductor track with the    *)
(* set_tempo messages and a track with one note.  All ticks are multiples   *)
(* of 50.                                                                   *)

(* the tempo the file sets at tick 0, if any, and the change at tick 250 *)
FirstTempoArgs == {NoneInt, 500000, 600000, 250000}
LaterTempoArgs == {NoneInt, 750000, 250000}
OnsetArgs == {0, 100, 250, 500}
LengthArgs == {100, 250, 500}

ConductorTrack(first, later) ==
    (IF first = NoneInt THEN << >> ELSE <<SetTempo(0, first)>>)
        \o (IF later = NoneInt THEN << >> ELSE <<SetTempo(250, later)>>)

TempoFiles ==
    {[ticks_per_beat |-> 500,
      tracks |-> <<ConductorTrack(first, later),
                   <<Message("note_on", onset, 0, 60, 64),
                     Message("note_off", length, 0, 60, 0)>>>>,
      set_order |-> order] :
        first \in FirstTempoArgs, later \in LaterTempoArgs, onset \in OnsetArgs,
        length \in LengthArgs, order \in SetOrders}

TempoInit ==
    /\ tasks = << >>
    /\ issued = 0
    /\ fs = {}
    /\ now = 0
    /\ deleted = 0
    /\ runs = << >>
    /\ calls = << >>
    /\ doc = EmptyScore
    /\ midi \in TempoFiles
    /\ lock = NoneStr
    /\ threads = << >>
    /\ committed = << >>
    /\ cli = << >>

(* doc = midi_to_score(midi) *)
ReadMidi ==
    /\ doc = EmptyScore
    /\ doc' = midi_to_score(midi)
    /\ UNCHANGED <<tasks, issued, fs, now, deleted, runs, calls, midi, lockVars, cli>>

TempoNext == ReadMidi

TempoSpec == TempoInit /\ [][TempoNext]_vars

(* C36: MIDI-to-score converts ticks to seconds by piecewise integration    *)
(* over the tempo map: the seconds of a tick are the sum over the tempo     *)
(* segments before it of segment ticks x the segment's microseconds per     *)
(* quarter / ticks per quarter, each segment at the tempo most recently set *)
(* in the file at or before its start, the default 500000 applying only     *)
(* where the file has set no tempo; the result is non-decreasing in the     *)
(* tick.                                                                    *)

(* the tempo in force at a tick: that of the last set_tempo at or before it *)
TempoInForce(m, tick) ==
    LET before == {e \in FileTempos(m) : e.tick <= tick}
        last == CHOOSE e \in before : \A x \in before : x.tick <= e.tick
    IN IF before = {} THEN DefaultTempo ELSE last.tempo

(* the integral, in pieces of 50 ticks *)
RECURSIVE Integral(_, _)
Integral(m, tick) ==
    IF tick <= 0 THEN 0
    ELSE Integral(m, tick - 50)
             + tick2second(50, m.ticks_per_beat, TempoInForce(m, tick - 50))

SampleTicks == {50 * k : k \in 0..20}

C36_PiecewiseIntegration ==
    /\ \A tick \in SampleTicks : tick_to_seconds(midi, tick) = Integral(midi, tick)
    /\ \A a, b \in SampleTicks : a <= b => tick_to_seconds(midi, a) <= tick_to_seconds(midi, b)

(* the parts of C36 that hold: the result never decreases, and it is the    *)
(* integral when the file sets no tempo at tick 0 or sets 500000 there      *)
C36_NonDecreasing ==
    \A a, b \in SampleTicks : a <= b => tick_to_seconds(midi, a) <= tick_to_seconds(midi, b)

C36_IntegralWithoutFirstTempo ==
    (\A e \in FileTempos(midi) : e.tick = 0 => e.tempo = DefaultTempo) =>
        \A tick \in SampleTicks : tick_to_seconds(midi, tick) = Integral(midi, tick)

(* what the code does: the file sets 600000 at tick 0 and nothing after it, *)
(* and its note of 500 ticks comes out 500 ms long, not 600 ms              *)
C36_DefaultOverridesFile ==
    /\ FileTempos(midi) = {[tick |-> 0, tempo |-> 600000]}
    /\ doc # EmptyScore
    /\ Len(doc.tracks) = 1
    /\ doc.tracks[1].notes[1].duration = 500 * Ms
    /\ doc.tempo_bpm = 100

----------------------------------------------------------------------------
(* C37: when mark_completed and mark_failed, or two finalizing calls of one *)
(* kind, race for one job from different threads, exactly one of them       *)
(* succeeds and alone determines the final status, result and error; every  *)
(* other one is rejected with AlreadyFinal and changes nothing.             *)

(* the finalizing calls that passed the check, and the record the one of    *)
(* them leaves                                                              *)
Winners == calls[LockJob]
WinnerIsShown ==
    LET rec == tasks[LockJob] IN
    IF Winners[1].op = "mark_completed"
    THEN rec.status = "completed" /\ rec.result # None /\ rec.error = None
    ELSE /\ rec.status = "failed" /\ rec.result = None
         /\ rec.error # None /\ rec.error.message = "boom"

(* a step of thread t: its frame changes *)
StepOf(t) == threads'[t] # threads[t]

C37_OneFinalizerWins ==
    /\ [](/\ Len(Winners) <= 1
          /\ is_finalized(tasks[LockJob].status) => Len(Winners) = 1
          /\ (Len(Winners) = 1 /\ \A w \in Workers : threads[w].pc # "write") =>
                 WinnerIsShown
          /\ \A w \in Workers :
                 (threads[w].call.op \in Finalizing /\ threads[w].pc = "release"
                      /\ threads[w].answer.err # "ok") =>
                     /\ threads[w].answer.err = "AlreadyFinal"
                     /\ Len(Winners) = 1)
    /\ [][\A w \in Workers :
              (StepOf(w) /\ threads[w].answer # None /\ threads[w].answer.err # "ok") =>
                  tasks' = tasks]_vars
    /\ [][\A w \in Workers :
              (StepOf(w) /\ threads'[w].answer # None /\ threads'[w].answer.err # "ok") =>
                  tasks' = tasks]_vars

(* mark_failed waited for the lock while mark_completed finalized the job,  *)
(* and has been rejected: the job shows the result of mark_completed        *)
C37_Witness ==
    /\ Winners = <<[op |-> "mark_completed", ok |-> TRUE]>>
    /\ \E w \in Workers :
           /\ threads[w].call.op = "mark_failed"
           /\ threads[w].pc = "release"
           /\ threads[w].answer.err = "AlreadyFinal"
           /\ lock = w
    /\ \E w \in Workers :
           /\ threads[w].call.op = "mark_completed"
           /\ threads[w].pc = "acquire"
    /\ tasks[LockJob].status = "completed"
    /\ tasks[LockJob].error = None

----------------------------------------------------------------------------
(* C39: a POST /generate whose upload is rejected after the job was created *)
(* (empty body, size ceiling exceeded, or a write error) never schedules a  *)
(* run and never leaves its job queued or running: the job ends failed and  *)
(* the upload file of that job is not on disk.                              *)
RejectedUpload(r, tid) ==
    /\ r.status \in {400, 413, 500}
    /\ r.scheduled = None
    /\ r.tasks[tid].status = "failed"
    /\ r.tasks[tid].error # None
    /\ Str(InputPath(tid)) \notin r.fs

NeverScheduled(id) == id \notin DOMAIN runs

C39_RejectedUploadFails ==
    /\ [](/\ issued < Len(Uuid4Seq) =>
              LET tid == uuid4(issued) IN
              /\ \A size \in AnyUploadSize, fmt \in RouteFormats :
                     LET r == generate_music(tasks, fs \cup {Str(InputPath(tid))},
                                             issued, "hum.wav", size, fmt, now)
                     IN IF size = 0 \/ size > Limit
                        THEN RejectedUpload(r, tid)
                        ELSE r.status = 202 /\ r.scheduled # None
              /\ \A e \in WriteErrors :
                     RejectedUpload(
                         generate_music_write_error(tasks, fs \cup {Str(InputPath(tid))},
                                                    issued, "hum.wav", e, now), tid)
          /\ \A id \in DOMAIN tasks :
                 NeverScheduled(id) =>
                     /\ tasks[id].status = "failed"
                     /\ Str(InputPath(id)) \notin fs)
    /\ [][\A id \in DOMAIN tasks : NeverScheduled(id) => id \notin DOMAIN runs']_vars

(* an empty upload and an upload that could not be written have each left a *)
(* failed job with its own message, no run and no file                      *)
C39_Witness ==
    \E a, b \in DOMAIN tasks :
        /\ tasks[a].status = "failed"
        /\ tasks[a].error.message = "Empty file"
        /\ tasks[b].status = "failed"
        /\ tasks[b].error.message = "Upload failed: No space left on device"
        /\ DOMAIN runs = {}
        /\ Str(InputPath(a)) \notin fs
        /\ Str(InputPath(b)) \notin fs

----------------------------------------------------------------------------
(* core/pipeline.py: the runner process_task loads when core.pipeline is    *)
(* importable (generation_service.py:159-165).  run_pipeline calls          *)
(* run_pipeline_for_task with cleanup_uploads=False and then looks for the  *)
(* audio in the output directory.  The three stages are separate steps, so  *)
(* that a poll can fall between them; calls[id] also lists the stages the   *)
(* runner has called, each with whether it returned.                        *)

(* the stage functions in the order run_pipeline_for_task calls them, and   *)
(* the Stage value the Job Store has for each                               *)
PipelineStages == <<"preprocess", "transcribe", "synthesize">>
StageOf(fn) ==
    CASE fn = "preprocess" -> "preprocessing"
      [] fn = "transcribe" -> "converting"
      [] fn = "synthesize" -> "synthesizing"

(* str(e) of what a stage raises *)
StageError(fn) ==
    CASE fn = "preprocess" -> "librosa could not load the audio"
      [] fn = "transcribe" -> "basic_pitch inference failed"
      [] fn = "synthesize" -> "FluidSynth produced no valid WAV file"

(* str(e) of the FileNotFoundError of run_pipeline *)
NoArtifactMessage == "Pipeline produced no audio artifact for task"

(* TaskManager.update_task, fail_task and done_task of core/utils.py work  *)
(* on the legacy store, in which the ids of the Job Store are not: each of  *)
(* these calls of run_pipeline_for_task returns at once (utils.py:228-229)  *)
(* and is no step of the model                                              *)

(* a stage call as the runner issued it *)
StageCall(fn, returned) == [op |-> fn, ok |-> returned]

(* the stage fn of the run has been called / has returned / has raised *)
Called(tid, fn) == \E i \in DOMAIN calls[tid] : calls[tid][i].op = fn
Returned(tid, fn) == \E i \in DOMAIN calls[tid] : calls[tid][i] = StageCall(fn, TRUE)
Raised(tid, fn) == \E i \in DOMAIN calls[tid] : calls[tid][i] = StageCall(fn, FALSE)

(* a stage of run_pipeline_for_task: it raises when its input file is not   *)
(* there and may raise on its own account; otherwise it writes `out`.  An   *)
(* exception is caught by run_pipeline_for_task (pipeline.py:72-74), whose  *)
(* finally clause removes nothing under cleanup_uploads=False, and          *)
(* run_pipeline goes on to look for the audio                               *)
StageStep(tid, fn, pc, in, out, next) ==
    /\ tid \in DOMAIN runs
    /\ runs[tid].pc = pc
    /\ \E returns \in BOOLEAN :
           LET ok == returns /\ Str(in) \in fs
           IN /\ fs' = IF ok THEN fs \cup {Str(out)} ELSE fs
              /\ calls' = [calls EXCEPT ![tid] = Append(@, StageCall(fn, ok))]
              /\ runs' = [runs EXCEPT ![tid] =
                             [@ EXCEPT !.pc = IF ok THEN next ELSE "locate"]]
    /\ UNCHANGED <<tasks, issued, now, deleted, scoreVars, lockVars, cli>>

(* preprocess_audio(raw_path, output_dir=upload_dir) *)
Preprocess ==
    \E tid \in UUIDs :
        StageStep(tid, "preprocess", "runner", runs[tid].input_path, CleanWav(tid), "transcribe")

(* audio_to_midi(clean_wav_path, output_dir=output_dir) *)
Transcribe ==
    \E tid \in UUIDs :
        StageStep(tid, "transcribe", "transcribe", CleanWav(tid), MidiOut(tid), "synthesize")

(* midi_to_audio(midi_path, output_format=output_format): the audio in the  *)
(* format asked for; when the mp3 encoding fails the wav it was to be made  *)
(* from stays in the output directory                                       *)
Synthesize ==
    \E tid \in UUIDs :
        \/ StageStep(tid, "synthesize", "synthesize", MidiOut(tid),
                     RenderOut(tid, runs[tid].output_format), "locate")
        \/ /\ tid \in DOMAIN runs
           /\ runs[tid].pc = "synthesize"
           /\ runs[tid].output_format = "mp3"
           /\ Str(MidiOut(tid)) \in fs
           /\ fs' = fs \cup {Str(RenderOut(tid, "wav"))}
           /\ calls' = [calls EXCEPT ![tid] = Append(@, StageCall("synthesize", FALSE))]
           /\ runs' = [runs EXCEPT ![tid] = [@ EXCEPT !.pc = "locate"]]
           /\ UNCHANGED <<tasks, issued, now, deleted, scoreVars, lockVars, cli>>

(* the audio run_pipeline returns: the preferred format, else mp3, else wav *)
located(disk, tid, output_format) ==
    IF Str(RenderOut(tid, output_format)) \in disk THEN RenderOut(tid, output_format)
    ELSE IF Str(RenderOut(tid, "mp3")) \in disk THEN RenderOut(tid, "mp3")
    ELSE IF Str(RenderOut(tid, "wav")) \in disk THEN RenderOut(tid, "wav")
    ELSE None

(* the end of run_pipeline and the check of process_task that the output    *)
(* exists; current_stage = synthesizing                                     *)
Locate ==
    \E tid \in UUIDs :
        /\ tid \in DOMAIN runs
        /\ runs[tid].pc = "locate"
        /\ LET f == runs[tid]
               output_path == located(fs, tid, f.output_format)
           IN runs' = [runs EXCEPT ![tid] =
                          IF output_path = None
                          THEN Raise(f, NoArtifactMessage)
                          ELSE [f EXCEPT !.pc = "progress_08",
                                         !.current_stage = "synthesizing",
                                         !.output_path = output_path]]
        /\ UNCHANGED <<tasks, issued, fs, now, deleted, calls, scoreVars, lockVars, cli>>

PipeNext ==
    \/ GenerateMusic
    \/ UploadFails
    \/ StartRun
    \/ Progress01
    \/ Progress04
    \/ Preprocess
    \/ Transcribe
    \/ Synthesize
    \/ Locate
    \/ Progress08
    \/ Move
    \/ Completion
    \/ Except
    \/ Finally
    \/ GetTaskStatus
    \/ DeleteFile

PipeSpec == OrchInit /\ [][PipeNext]_vars

(* C32: during a run, progress 0.4 with stage converting is published after *)
(* preprocess has returned and before transcribe starts, progress 0.8 with  *)
(* stage synthesizing after transcribe has returned and before synthesize   *)
(* starts; the progress of a job never decreases from one poll to the next. *)
PublishedBetweenStages ==
    \A tid \in DOMAIN runs :
        /\ tasks[tid].progress >= 4 /\ tasks[tid].status = "running" =>
               Returned(tid, "preprocess")
        /\ Called(tid, "transcribe") => tasks[tid].progress >= 4
        /\ tasks[tid].progress >= 8 /\ tasks[tid].status = "running" =>
               Returned(tid, "transcribe")
        /\ Called(tid, "synthesize") => tasks[tid].progress >= 8

ProgressNeverDecreases ==
    \A id \in DOMAIN tasks :
        id \in DOMAIN tasks' => tasks'[id].progress >= tasks[id].progress

C32_ProgressBetweenStages ==
    [](PublishedBetweenStages) /\ [][ProgressNeverDecreases]_vars

(* what the code does: 0.4 is on show before preprocess was called, and     *)
(* synthesize has returned while the job still shows 0.4                    *)
C32_PublishedAroundRunner ==
    \E tid \in DOMAIN runs :
        /\ Returned(tid, "synthesize")
        /\ tasks[tid].progress = 4
        /\ tasks[tid].stage = "converting"
        /\ tasks[tid].status = "running"

(* the half of C32 that holds *)
C32_Monotone == [][ProgressNeverDecreases]_vars

(* C33: when a stage raises during a run, the failed job's stage field      *)
(* names the stage that was executing and error.message carries the text    *)
(* of the error that stage raised.                                          *)
C33_FailedStageAndMessage ==
    \A tid \in DOMAIN runs :
        \A i \in DOMAIN PipelineStages :
            LET fn == PipelineStages[i]
            IN Raised(tid, fn) /\ tasks[tid].status = "failed" =>
                   /\ tasks[tid].stage = StageOf(fn)
                   /\ tasks[tid].error.message = StageError(fn)

(* what the code does: preprocess raised, the job says converting and       *)
(* carries the message of run_pipeline                                      *)
C33_PreprocessFailedAsConverting ==
    \E tid \in DOMAIN runs :
        /\ Raised(tid, "preprocess")
        /\ tasks[tid].status = "failed"
        /\ tasks[tid].stage = "converting"
        /\ tasks[tid].error.message = NoArtifactMessage

(* C34: after a run with keep not configured the clean audio                *)
(* {upload_dir}/{id}_clean.wav that preprocess wrote no longer exists,      *)
(* whether the run succeeded or failed.                                     *)
C34_CleanWavRemoved ==
    \A tid \in DOMAIN runs :
        runs[tid].pc = "done" => Str(CleanWav(tid)) \notin fs

(* what the code does: the clean audio is there after a completed run and   *)
(* after a failed one                                                       *)
C34_CleanWavLeftAfterSuccess ==
    \E tid \in DOMAIN runs :
        /\ runs[tid].pc = "done"
        /\ tasks[tid].status = "completed"
        /\ Str(CleanWav(tid)) \in fs

C34_CleanWavLeftAfterFailure ==
    \E tid \in DOMAIN runs :
        /\ runs[tid].pc = "done"
        /\ tasks[tid].status = "failed"
        /\ Str(CleanWav(tid)) \in fs

----------------------------------------------------------------------------
(* routers/score.py: put_score on a completed job, with the content of the  *)
(* two files it writes: doc is what {output_dir}/{id}.score.json holds and  *)
(* midi what {output_dir}/{id}.mid holds.  The handler is taken by itself,  *)
(* as an application that includes the score router serves it; the binding  *)
(* of midi is to the path of {id}.mid and is the same before and after.     *)

(* the bodies a client sends: pydantic has validated them, and the tracks    *)
(* come without ids                                                         *)
PutBodies == {s \in ScoreArgs : ScoreDocValid(s) /\ s.tracks[1].id = NoId}

(* lines 121-143: the normalized score is persisted (step 1), then the MIDI *)
(* is exported from it (step 2); exported says whether score_to_midi        *)
(* returns, and when it raises the request is answered 500                  *)
put_score_files(json, mid, score, exported) ==
    LET score_n == normalize_score(score).value
    IN IF exported
       THEN [status |-> 200, json |-> score_n, mid |-> score_to_midi(score_n)]
       ELSE [status |-> 500, json |-> score_n, mid |-> mid]

PutScoreExported ==
    \E score \in PutBodies :
        /\ doc' = put_score_files(doc, midi, score, TRUE).json
        /\ midi' = put_score_files(doc, midi, score, TRUE).mid
        /\ UNCHANGED <<tasks, issued, fs, now, deleted, runs, calls, lockVars, cli>>

PutScoreExportFails ==
    \E score \in PutBodies :
        /\ doc' = put_score_files(doc, midi, score, FALSE).json
        /\ midi' = put_score_files(doc, midi, score, FALSE).mid
        /\ UNCHANGED <<tasks, issued, fs, now, deleted, runs, calls, lockVars, cli>>

PutNext ==
    \/ PutScoreExported
    \/ PutScoreExportFails

(* the job's MIDI is empty and so is the score derived from it *)
PutInit ==
    /\ tasks = << >>
    /\ issued = 0
    /\ fs = {}
    /\ now = 0
    /\ deleted = 0
    /\ runs = << >>
    /\ calls = << >>
    /\ doc = EmptyScore
    /\ midi = score_to_midi(EmptyScore)
    /\ lock = NoneStr
    /\ threads = << >>
    /\ committed = << >>
    /\ cli = << >>

PutSpec == PutInit /\ [][PutNext]_vars

(* C40: a PUT /tasks/{id}/score that fails while exporting the MIDI         *)
(* (response 500) leaves the persisted score JSON and the MIDI file as      *)
(* they were before the request, so that GET /score and the midi download   *)
(* still describe the same score.                                           *)
C40_FailedPutChangesNothing ==
    /\ [][PutScoreExportFails => doc' = doc /\ midi' = midi]_vars
    /\ [](midi = score_to_midi(doc))

(* what the code does: the score file holds the score of the failed         *)
(* request, the MIDI the score of the request before it                     *)
C40_ScoreAheadOfMidi ==
    /\ doc # EmptyScore
    /\ midi = score_to_midi(EmptyScore)
    /\ midi # score_to_midi(doc)

----------------------------------------------------------------------------
----------------------------------------------------------------------------
(* hum2song/cli.py and hum2song/api_client.py: the generate command         *)
(*                                                                           *)
(* The command uploads a recording, polls GET /tasks/{id} until the job is   *)
(* final or the deadline has passed, and downloads what was asked for. The   *)
(* server it talks to is the application of OrchSpec; its clock is `now`.    *)

(* exit codes (keep stable) *)
EXIT_OK == 0
EXIT_TASK_FAILED == 2
EXIT_TIMEOUT == 3
EXIT_NETWORK_OR_HTTP == 4
EXIT_BAD_ARGS == 5

(* the exceptions of the client that cmd_generate answers with EXIT_NETWORK_OR_HTTP *)
ClientErrors == {"NetworkError", "HTTPError", "ContractError"}

(* what the transport does with a request: it brings the server's answer, it
   fails (connection, timeout, DNS) before the server has seen the request, or
   it brings the status with a body that is not the JSON document of the contract *)
TransportArgs == {"ok", "NetworkError", "ContractError"}

(* Hum2SongClient.submit_task: r is the answer of POST /generate *)
submit_task(is_file, transport, r) ==
    IF ~is_file THEN Raises("ValueError")
    ELSE IF transport = "NetworkError" THEN Raises("NetworkError")
    ELSE IF r.status # 202 THEN Raises("HTTPError")
    ELSE IF transport = "ContractError" THEN Raises("ContractError")
    ELSE [err |-> "ok", value |-> r.body]

(* Hum2SongClient.get_status: r is the answer of GET /tasks/{task_id} *)
get_status(transport, r) ==
    IF transport = "NetworkError" THEN Raises("NetworkError")
    ELSE IF r.status # 200 THEN Raises("HTTPError")
    ELSE IF transport = "ContractError" THEN Raises("ContractError")
    ELSE [err |-> "ok", value |-> r.body]

(* Hum2SongClient.download_file with overwrite=True: r is the answer of
   GET /tasks/{task_id}/download; the value is the file that was streamed *)
download_file(transport, r) ==
    IF transport = "NetworkError" THEN Raises("NetworkError")
    ELSE IF r.status # 200 THEN Raises("HTTPError")
    ELSE [err |-> "ok", value |-> r.path]

(* the arguments of `hum2song generate`; times in nanoseconds *)
Namespace(is_file, format, timeout, poll_interval, no_wait, no_download, download,
          download_midi) ==
    [is_file |-> is_file, format |-> format, timeout |-> timeout,
     poll_interval |-> poll_interval, no_wait |-> no_wait, no_download |-> no_download,
     download |-> download, download_midi |-> download_midi]

ShortTimeout == 250 * Ms
LongInterval == 200 * Ms

GenerateArgs ==
    {Namespace(TRUE, "mp3", ShortTimeout, 0, FALSE, FALSE, "audio", FALSE),
     Namespace(TRUE, "wav", ShortTimeout, LongInterval, FALSE, FALSE, "both", FALSE),
     Namespace(TRUE, "mp3", ShortTimeout, 0, FALSE, FALSE, "audio", TRUE),
     Namespace(TRUE, "mp3", 0, 0, FALSE, TRUE, "midi", FALSE),
     Namespace(TRUE, "mp3", ShortTimeout, 0, TRUE, FALSE, "audio", FALSE),
     Namespace(FALSE, "mp3", ShortTimeout, 0, FALSE, FALSE, "audio", FALSE)}

(* the sizes of the recording that is uploaded *)
RecordingSizes == {0, Limit}

(* the time the clock may have moved on between two of its readings *)
ElapsedArgs == {0, 50 * Ms}

(* time.sleep(max(0.1, float(args.poll_interval))) *)
SleepTime(args) == IF args.poll_interval < 100 * Ms THEN 100 * Ms ELSE args.poll_interval

(* the file types the command downloads, in the order it downloads them *)
targets(args) ==
    (IF args.download \in {"audio", "both"} THEN <<"audio">> ELSE << >>)
        \o (IF args.download \in {"midi", "both"} \/ args.download_midi
            THEN <<"midi">> ELSE << >>)

(* the locals of a cmd_generate call at its entry *)
CliFrame(args) ==
    [pc |-> "submit", args |-> args, task_id |-> NoneStr, deadline |-> NoneInt,
     info |-> None, polls |-> 0, targets |-> << >>, downloaded |-> << >>,
     raised |-> NoneStr, exit_code |-> NoneInt]

Return(f, code) == [f EXCEPT !.pc = "exited", !.exit_code = code]

(* the except clauses of cmd_generate *)
except_clause(f, err) ==
    IF err \in ClientErrors
    THEN Return([f EXCEPT !.raised = err], EXIT_NETWORK_OR_HTTP)
    ELSE Return([f EXCEPT !.raised = err], EXIT_BAD_ARGS)

(* mutant: a failed job is reported like a finished one *)
after_status_failed_is_ok(f, info) ==
    LET g == [f EXCEPT !.info = info, !.polls = @ + 1] IN
    IF info.status = "completed"
    THEN IF f.args.no_download THEN Return(g, EXIT_OK)
         ELSE [g EXCEPT !.pc = "download", !.targets = targets(f.args)]
    ELSE IF info.status = "failed" THEN Return(g, EXIT_OK)
    ELSE g

(* the loop body after get_status has returned info: out of the loop when the
   job is completed, out of the command when it has failed, round again otherwise *)
after_status(f, info) ==
    LET g == [f EXCEPT !.info = info, !.polls = @ + 1] IN
    IF info.status = "completed"
    THEN IF f.args.no_download THEN Return(g, EXIT_OK)
         ELSE [g EXCEPT !.pc = "download", !.targets = targets(f.args)]
    ELSE IF info.status = "failed" THEN Return(g, EXIT_TASK_FAILED)
    ELSE g

(* 1) submit: POST /generate with the recording, then the deadline is set *)
CliSubmit ==
    /\ cli.pc = "submit"
    /\ \E transport \in TransportArgs, size \in RecordingSizes :
           LET reaches == cli.args.is_file /\ transport # "NetworkError"
               r == generate_music(tasks, fs, issued, "hum.wav", size, cli.args.format, utcnow)
               res == submit_task(cli.args.is_file, transport, r)
               tid == uuid4(issued)
           IN /\ tasks' = IF reaches THEN r.tasks ELSE tasks
              /\ fs' = IF reaches THEN r.fs ELSE fs
              /\ issued' = IF reaches THEN issued + r.drawn ELSE issued
              /\ runs' = IF reaches /\ r.scheduled # None
                         THEN Put(runs, tid, r.scheduled) ELSE runs
              /\ calls' = IF reaches /\ r.scheduled # None
                          THEN Put(calls, tid, << >>) ELSE calls
              /\ cli' = IF res.err # "ok" THEN except_clause(cli, res.err)
                        ELSE IF cli.args.no_wait
                        THEN Return([cli EXCEPT !.task_id = res.value.task_id], EXIT_OK)
                        ELSE [cli EXCEPT !.pc = "poll",
                                         !.task_id = res.value.task_id,
                                         !.deadline = now + cli.args.timeout]
    /\ UNCHANGED <<now, deleted, scoreVars, lockVars>>

(* 2) poll: one round of the loop, from the reading of the clock to the end of
   the sleep *)
CliPoll ==
    /\ cli.pc = "poll"
    /\ \E elapsed \in ElapsedArgs, transport \in TransportArgs :
           LET time == now + elapsed
               res == get_status(transport, get_task_status(tasks, cli.task_id))
               f == IF res.err = "ok" THEN after_status(cli, res.value) ELSE cli
           IN IF time > cli.deadline
              THEN /\ cli' = Return(cli, EXIT_TIMEOUT)
                   /\ now' = time
              ELSE IF res.err # "ok"
              THEN /\ cli' = except_clause(cli, res.err)
                   /\ now' = time
              ELSE /\ cli' = f
                   /\ now' = IF f.pc = "poll" THEN time + SleepTime(cli.args) ELSE time
    /\ UNCHANGED <<tasks, issued, fs, deleted, runs, calls, scoreVars, lockVars>>

(* 3) download: the next file of the targets, or the end of the command *)
CliDownload ==
    /\ cli.pc = "download"
    /\ IF cli.targets = << >>
       THEN cli' = Return(cli, EXIT_OK)
       ELSE \E transport \in TransportArgs \ {"ContractError"} :
                LET ft == Head(cli.targets)
                    res == download_file(transport,
                                         download_artifact(tasks, fs, cli.task_id, ft))
                IN cli' = IF res.err # "ok" THEN except_clause(cli, res.err)
                          ELSE [cli EXCEPT !.targets = Tail(@),
                                           !.downloaded = Append(@, ft)]
    /\ UNCHANGED <<tasks, issued, fs, now, deleted, runs, calls, scoreVars, lockVars>>

(* the command runs to its end: each of its steps is a request that is answered
   or times out in the client, or a sleep *)
CliStep == CliSubmit \/ CliPoll \/ CliDownload

CliNext ==
    \/ CliSubmit
    \/ CliPoll
    \/ CliDownload
    \/ StartRun
    \/ Progress01
    \/ Progress04
    \/ Runner
    \/ Progress08
    \/ Move
    \/ Completion
    \/ Except
    \/ Finally
    \/ DeleteFile

CliInit ==
    /\ tasks = << >>
    /\ issued = 0
    /\ fs = {}
    /\ now = 0
    /\ deleted = 0
    /\ runs = << >>
    /\ calls = << >>
    /\ doc = EmptyScore
    /\ midi = EmptyMidi
    /\ lock = NoneStr
    /\ threads = << >>
    /\ committed = << >>
    /\ cli \in {CliFrame(args) : args \in GenerateArgs}

CliSpec == CliInit /\ [][CliNext]_vars /\ WF_vars(CliStep)

(* the cases of the command's end, read from its frame and from the clock *)
ObservedCompleted == cli.info # None /\ cli.info.status = "completed"
ObservedFailed == cli.info # None /\ cli.info.status = "failed"
NothingRaised == cli.raised = NoneStr
AllDownloaded == cli.args.no_download \/ cli.downloaded = targets(cli.args)

ExitCodeMatches ==
    /\ cli.exit_code \in {EXIT_OK, EXIT_TASK_FAILED, EXIT_TIMEOUT,
                          EXIT_NETWORK_OR_HTTP, EXIT_BAD_ARGS}
    /\ cli.exit_code = EXIT_OK <=>
           /\ NothingRaised
           /\ cli.task_id # NoneStr
           /\ cli.args.no_wait \/ (ObservedCompleted /\ AllDownloaded)
    /\ cli.exit_code = EXIT_TASK_FAILED <=> NothingRaised /\ ObservedFailed
    /\ cli.exit_code = EXIT_TIMEOUT <=>
           /\ NothingRaised
           /\ cli.task_id # NoneStr /\ ~cli.args.no_wait
           /\ ~ObservedCompleted /\ ~ObservedFailed
           /\ now > cli.deadline
    /\ cli.exit_code = EXIT_NETWORK_OR_HTTP <=> cli.raised \in ClientErrors
    /\ cli.exit_code = EXIT_BAD_ARGS <=> cli.raised = "ValueError" /\ ~cli.args.is_file
    /\ ObservedCompleted => tasks[cli.task_id].status = "completed"
    /\ ObservedFailed => tasks[cli.task_id].status = "failed"

(* C31: the generate command comes to its end whatever the server and the
   transport do, and its exit code is 0 when it saw the job completed and
   downloaded what was asked for (or was told not to wait), 2 when it saw the
   job failed, 3 when the deadline passed before it saw a final status, 4 when
   the client raised a network, HTTP or contract error, and 5 when the
   recording is not a file *)
C31_ExitCodes ==
    /\ [](cli.pc = "exited" => ExitCodeMatches)
    /\ <>(cli.pc = "exited")

(* the command polled a job that was still running, slept, and gave up at the
   deadline *)
C31_Witness ==
    /\ cli.pc = "exited"
    /\ cli.exit_code = EXIT_TIMEOUT
    /\ cli.polls >= 2
    /\ cli.info.status = "running"

(* the other four ends of the command *)
C31_ExitsOk == cli.pc = "exited" /\ cli.exit_code = EXIT_OK /\ cli.downloaded = <<"audio">>
(* no run binds a MIDI file to its job, so no command has downloaded one *)
C31_MidiDownloadRefused ==
    cli.pc = "exited" => \A i \in DOMAIN cli.downloaded : cli.downloaded[i] # "midi"
C31_ExitsTaskFailed == cli.pc = "exited" /\ cli.exit_code = EXIT_TASK_FAILED
C31_ExitsHttpOnDownload ==
    /\ cli.pc = "exited"
    /\ cli.exit_code = EXIT_NETWORK_OR_HTTP
    /\ cli.raised = "HTTPError"
    /\ ObservedCompleted
C31_ExitsBadArgs == cli.pc = "exited" /\ cli.exit_code = EXIT_BAD_ARGS

====
